---- MODULE Spec2Model ----
(***************************************************************************)
(* Hybrid frequency search of boy-and-a-scanner-app: the cache adapter,    *)
(* the merge engine, the service filter and the two entry points           *)
(* searchFrequencies and planTrip of src/services/geminiService.ts.        *)
(*                                                                         *)
(* A JavaScript string is a sequence of one-character strings.  A JSON     *)
(* value that can be absent, null, a string or an array is a tagged        *)
(* record; an object is a record whose fields hold such values (a field    *)
(* the object does not have holds Undefined).                              *)
(***************************************************************************)
EXTENDS Integers, Sequences, FiniteSets, TLC

VARIABLES store, calls, reqs, pureArgs, pureResult, handler

vars == <<store, calls, reqs, pureArgs, pureResult, handler>>

\* ---------------------------------------------------------------- bounds
MaxRR == 2
MaxAI == 2
MaxLabelLen == 2
NumCalls == 2

\* ------------------------------------------------------------ JSON values
Undefined == [t |-> "undefined"]
Null == [t |-> "null"]
Str(s) == [t |-> "string", v |-> s]
Arr(s) == [t |-> "array", v |-> s]
\* the outcome of an evaluation that can throw
Ok(v) == [threw |-> FALSE, v |-> v]
Threw(e) == [threw |-> TRUE, v |-> e]

\* JavaScript truthiness of a string-, array- or object-valued field
Truthy(x) == x.t \notin {"undefined", "null"} /\ x # Str(<<>>)
IsArray(x) == x.t = "array"
\* x?.length > 0
LengthPositive(x) == IsArray(x) /\ Len(x.v) > 0

\* --------------------------------------------------------------- strings
toLowerCaseChar(ch) ==
  CASE ch = "A" -> "a" [] ch = "B" -> "b" [] ch = "C" -> "c" [] ch = "D" -> "d"
    [] ch = "E" -> "e" [] ch = "F" -> "f" [] ch = "G" -> "g" [] ch = "H" -> "h"
    [] ch = "I" -> "i" [] ch = "J" -> "j" [] ch = "K" -> "k" [] ch = "L" -> "l"
    [] ch = "M" -> "m" [] ch = "N" -> "n" [] ch = "O" -> "o" [] ch = "P" -> "p"
    [] ch = "Q" -> "q" [] ch = "R" -> "r" [] ch = "S" -> "s" [] ch = "T" -> "t"
    [] ch = "U" -> "u" [] ch = "V" -> "v" [] ch = "W" -> "w" [] ch = "X" -> "x"
    [] ch = "Y" -> "y" [] ch = "Z" -> "z" [] OTHER -> ch

toLowerCase(str) == [i \in 1..Len(str) |-> toLowerCaseChar(str[i])]

LowerLetters == {"a","b","c","d","e","f","g","h","i","j","k","l","m",
                 "n","o","p","q","r","s","t","u","v","w","x","y","z"}
UpperLetters == {"A","B","C","D","E","F","G","H","I","J","K","L","M",
                 "N","O","P","Q","R","S","T","U","V","W","X","Y","Z"}
Digits == {"0","1","2","3","4","5","6","7","8","9"}
\* the characters the regular expression class \s matches
WhiteSpace == {" ", "\t", "\n"}

\* str.includes(sub)
includes(str, sub) ==
  \E i \in 0..(Len(str) - Len(sub)) : SubSeq(str, i + 1, i + Len(sub)) = sub

\* str.trim()
RECURSIVE trimStart(_)
trimStart(str) ==
  IF str # <<>> /\ Head(str) \in WhiteSpace THEN trimStart(Tail(str)) ELSE str
RECURSIVE trimEnd(_)
trimEnd(str) ==
  IF str # <<>> /\ str[Len(str)] \in WhiteSpace
  THEN trimEnd(SubSeq(str, 1, Len(str) - 1)) ELSE str
trim(str) == trimEnd(trimStart(str))

\* str.slice(0, n)
sliceTo(str, n) == SubSeq(str, 1, IF Len(str) < n THEN Len(str) ELSE n)

PromptMaxLength == 100
IsSafeChar(ch) ==
  ch \in LowerLetters \cup UpperLetters \cup Digits \cup WhiteSpace \cup {",", ".", "-"}
sanitizeForPrompt(input) ==
  IF input = <<>> THEN <<>>
  ELSE sliceTo(trim(SelectSeq(input, IsSafeChar)), PromptMaxLength)

\* .toLowerCase().replace(/\s+/g, '')
IsNotSpace(ch) == ch \notin WhiteSpace
KeyNormalize(str) == SelectSeq(toLowerCase(str), IsNotSpace)

\* variant: the key also carries the selected services, as older keys did
searchCacheKey_withServices(locationQuery, userSelectedServices, rrCredentials) ==
  KeyNormalize(<<"v","6","_","l","o","c","_">> \o sanitizeForPrompt(locationQuery) \o <<"_">>
                 \o (IF userSelectedServices = <<>> THEN <<>> ELSE userSelectedServices[1]))

\* the cache key searchFrequencies computes from its arguments
searchCacheKey(locationQuery, userSelectedServices, rrCredentials) ==
  KeyNormalize(<<"v","6","_","l","o","c","_">> \o sanitizeForPrompt(locationQuery))

\* the cache key planTrip computes from its arguments
tripCacheKey(start, end, userSelectedServices) ==
  KeyNormalize(<<"v","6","_","t","r","i","p","_">> \o sanitizeForPrompt(start) \o <<"_","t","o","_">> \o sanitizeForPrompt(end))

\* /^\d{5}$/.test(str)
IsZip(str) == Len(str) = 5 /\ \A i \in 1..5 : str[i] \in Digits

\* ------------------------------------------------------------ merge engine
\* a character the class [a-z0-9] matches
IsAlnum(ch) == ch \in LowerLetters \cup Digits

\* variant: the name is not lower-cased before the replace
normalizeName_keepCase(str) ==
  IF str.t = "string" THEN Ok(SelectSeq(str.v, IsAlnum))
  ELSE Threw("TypeError")

\* str.toLowerCase().replace(/[^a-z0-9]/g, ''); a name that is no string throws
normalizeName(str) ==
  IF str.t = "string" THEN Ok(SelectSeq(toLowerCase(str.v), IsAlnum))
  ELSE Threw("TypeError")

\* new Set(list.map(x => normalizeName(x.name)))
normalizedNames(list) ==
  IF ~IsArray(list) THEN Threw("TypeError")
  ELSE IF \E i \in 1..Len(list.v) : normalizeName(list.v[i].name).threw
       THEN Threw("TypeError")
       ELSE Ok({normalizeName(list.v[i].name).v : i \in 1..Len(list.v)})

\* variant: the loop does not record the names it appends
RECURSIVE appendNew_noRecord(_, _, _, _)
appendNew_noRecord(items, i, acc, existing) ==
  IF i > Len(items) THEN Ok(acc)
  ELSE LET norm == normalizeName(items[i].name) IN
       IF norm.threw THEN norm
       ELSE IF norm.v \notin existing
            THEN appendNew_noRecord(items, i + 1, Append(acc, items[i]), existing)
            ELSE appendNew_noRecord(items, i + 1, acc, existing)

\* the loop "for (const x of items) { if (!existing.has(norm)) { push; add } }"
RECURSIVE appendNew(_, _, _, _)
appendNew(items, i, acc, existing) ==
  IF i > Len(items) THEN Ok(acc)
  ELSE LET norm == normalizeName(items[i].name) IN
       IF norm.threw THEN norm
       ELSE IF norm.v \notin existing
            THEN appendNew(items, i + 1, Append(acc, items[i]), existing \cup {norm.v})
            ELSE appendNew(items, i + 1, acc, existing)

\* one of the two merge passes: base list of rr, candidates of ai
mergeList(base, extra) ==
  LET existing == normalizedNames(base) IN
  IF existing.threw THEN existing
  ELSE IF ~Truthy(extra) THEN Ok(base.v)
       ELSE appendNew(extra.v, 1, base.v, existing.v)

EnhancedSuffix == <<" ","(","E","n","h","a","n","c","e","d"," ","w","i","t","h"," ","A","I"," ","d","i","s","c","o","v","e","r","y",")">>
\* string concatenation rr.summary + "..."
toStringJS(x) == IF x.t = "string" THEN x.v ELSE IF x.t = "null" THEN <<"n","u","l","l">> ELSE <<"u","n","d","e","f","i","n","e","d">>

mergeResults(rr, ai) ==
  LET agencies == mergeList(rr.agencies, ai.agencies)
      systems == mergeList(rr.trunkedSystems, ai.trunkedSystems)
  IN IF agencies.threw THEN agencies
     ELSE IF systems.threw THEN systems
     ELSE Ok([rr EXCEPT !.source = Str(<<"A","P","I">>),
                        !.summary = Str(toStringJS(rr.summary) \o EnhancedSuffix),
                        !.agencies = Arr(agencies.v),
                        !.trunkedSystems = Arr(systems.v)])

\* ---------------------------------------------------------- service filter
ALL_SERVICE_TYPES ==
  << <<"P","o","l","i","c","e">>, <<"F","i","r","e">>, <<"E","M","S">>, <<"H","a","m"," ","R","a","d","i","o">>, <<"R","a","i","l","r","o","a","d">>, <<"A","i","r">>, <<"M","a","r","i","n","e">>,
     <<"F","e","d","e","r","a","l">>, <<"M","i","l","i","t","a","r","y">>, <<"P","u","b","l","i","c"," ","W","o","r","k","s">>, <<"U","t","i","l","i","t","i","e","s">>, <<"T","r","a","n","s","p","o","r","t","a","t","i","o","n">>,
     <<"B","u","s","i","n","e","s","s">>, <<"H","o","s","p","i","t","a","l","s">>, <<"S","c","h","o","o","l","s">>, <<"C","o","r","r","e","c","t","i","o","n","s">>, <<"S","e","c","u","r","i","t","y">>,
     <<"M","u","l","t","i","-","D","i","s","p","a","t","c","h">> >>

\* the keywords isCategoryAllowed tests when the service is in the allowed set
serviceKeywords(service) ==
  CASE service = <<"p","o","l","i","c","e">> ->
       {<<"l","a","w">>, <<"p","o","l","i","c","e">>, <<"s","h","e","r","i","f","f">>, <<"p","a","t","r","o","l">>, <<"t","r","o","o","p","e","r">>, <<"m","a","r","s","h","a","l">>, <<"c","o","n","s","t","a","b","l","e">>, <<"d","e","t","e","c","t","i","v","e">>, <<"f","b","i">>, <<"d","e","a">>, <<"a","t","f">>}
    [] service = <<"f","i","r","e">> ->
       {<<"f","i","r","e">>, <<"r","e","s","c","u","e">>, <<"e","n","g","i","n","e">>, <<"l","a","d","d","e","r">>, <<"b","a","t","t","a","l","i","o","n">>, <<"h","a","z","m","a","t">>}
    [] service = <<"e","m","s">> ->
       {<<"e","m","s">>, <<"m","e","d","i","c">>, <<"a","m","b","u","l","a","n","c","e">>, <<"h","o","s","p","i","t","a","l">>, <<"p","a","r","a","m","e","d","i","c">>, <<"l","i","f","e"," ","f","l","i","g","h","t">>, <<"r","e","s","c","u","e">>}
    [] service = <<"h","a","m"," ","r","a","d","i","o">> ->
       {<<"h","a","m">>, <<"a","m","a","t","e","u","r">>, <<"r","e","p","e","a","t","e","r">>, <<"a","r","e","s">>, <<"r","a","c","e","s">>, <<"s","k","y","w","a","r","n">>}
    [] service = <<"r","a","i","l","r","o","a","d">> ->
       {<<"r","a","i","l">>, <<"t","r","a","i","n">>, <<"l","o","c","o","m","o","t","i","v","e">>, <<"y","a","r","d">>, <<"c","o","n","d","u","c","t","o","r">>, <<"u","n","i","o","n"," ","p","a","c","i","f","i","c">>, <<"b","n","s","f">>, <<"c","s","x">>, <<"a","m","t","r","a","k">>}
    [] service = <<"a","i","r">> ->
       {<<"a","i","r">>, <<"a","v","i","a","t","i","o","n">>, <<"c","o","n","t","r","o","l"," ","t","o","w","e","r">>, <<"a","p","p","r","o","a","c","h">>, <<"d","e","p","a","r","t","u","r","e">>, <<"g","r","o","u","n","d">>, <<"u","n","i","c","o","m">>, <<"a","i","r","p","o","r","t">>, <<"p","i","l","o","t">>}
    [] service = <<"m","a","r","i","n","e">> ->
       {<<"m","a","r","i","n","e">>, <<"c","o","a","s","t">>, <<"b","o","a","t">>, <<"s","h","i","p">>, <<"v","e","s","s","e","l">>, <<"p","o","r","t">>, <<"h","a","r","b","o","r">>, <<"m","a","r","i","n","a">>}
    [] service = <<"f","e","d","e","r","a","l">> ->
       {<<"f","e","d","e","r","a","l">>, <<"f","e","d">>, <<"g","o","v","t">>, <<"g","o","v","e","r","n","m","e","n","t">>, <<"u","s"," ">>, <<"u",".","s",".">>, <<"f","o","r","e","s","t"," ","s","e","r","v","i","c","e">>, <<"p","a","r","k"," ","s","e","r","v","i","c","e">>, <<"b","l","m">>, <<"f","b","i">>, <<"t","s","a">>, <<"c","u","s","t","o","m","s">>, <<"b","o","r","d","e","r"," ","p","a","t","r","o","l">>, <<"i","c","e"," ">>, <<"d","h","s">>}
    [] service = <<"m","i","l","i","t","a","r","y">> ->
       {<<"m","i","l","i","t","a","r","y">>, <<"a","r","m","y">>, <<"n","a","v","y">>, <<"a","i","r"," ","f","o","r","c","e">>, <<"m","a","r","i","n","e","s">>, <<"c","o","a","s","t"," ","g","u","a","r","d">>, <<"n","a","t","i","o","n","a","l"," ","g","u","a","r","d">>, <<"b","a","s","e">>, <<"f","o","r","t">>, <<"c","a","m","p"," ">>, <<"a","f","b">>, <<"d","e","f","e","n","s","e">>, <<"s","q","u","a","d","r","o","n">>, <<"w","i","n","g">>}
    [] service = <<"p","u","b","l","i","c"," ","w","o","r","k","s">> ->
       {<<"p","u","b","l","i","c"," ","w","o","r","k","s">>, <<"d","p","w">>, <<"s","t","r","e","e","t">>, <<"r","o","a","d">>, <<"h","i","g","h","w","a","y">>, <<"t","r","a","n","s","p","o","r","t","a","t","i","o","n">>, <<"d","o","t"," ">>, <<"s","a","n","i","t","a","t","i","o","n">>, <<"g","a","r","b","a","g","e">>, <<"t","r","a","s","h">>, <<"r","e","c","y","c","l","i","n","g">>, <<"w","a","t","e","r">>, <<"s","e","w","e","r">>, <<"u","t","i","l","i","t","y">>, <<"e","n","g","i","n","e","e","r","i","n","g">>, <<"m","a","i","n","t","e","n","a","n","c","e">>}
    [] service = <<"u","t","i","l","i","t","i","e","s">> ->
       {<<"u","t","i","l","i","t">>, <<"p","o","w","e","r">>, <<"e","l","e","c","t","r","i","c">>, <<"g","a","s">>, <<"e","n","e","r","g","y">>, <<"w","a","t","e","r">>, <<"s","e","w","e","r">>, <<"c","a","b","l","e">>, <<"i","n","t","e","r","n","e","t">>, <<"p","h","o","n","e">>}
    [] service = <<"t","r","a","n","s","p","o","r","t","a","t","i","o","n">> ->
       {<<"t","r","a","n","s","p","o","r","t">>, <<"t","r","a","n","s","i","t">>, <<"b","u","s">>, <<"t","a","x","i">>, <<"s","h","u","t","t","l","e">>, <<"m","e","t","r","o">>, <<"s","u","b","w","a","y">>, <<"a","i","r","p","o","r","t">>, <<"u","b","e","r">>, <<"l","y","f","t">>, <<"l","i","m","o">>}
    [] service = <<"b","u","s","i","n","e","s","s">> ->
       {<<"b","u","s","i","n","e","s","s">>, <<"c","o","m","m","e","r","c","i","a","l">>, <<"m","a","l","l">>, <<"s","t","o","r","e">>, <<"s","h","o","p">>, <<"f","a","c","t","o","r","y">>, <<"p","l","a","n","t">>, <<"w","a","r","e","h","o","u","s","e">>, <<"h","o","t","e","l">>, <<"m","o","t","e","l">>, <<"c","a","s","i","n","o">>, <<"r","e","s","o","r","t">>, <<"l","o","g","i","s","t","i","c","s">>, <<"s","e","c","u","r","i","t","y">>}
    [] service = <<"h","o","s","p","i","t","a","l","s">> ->
       {<<"h","o","s","p","i","t","a","l">>, <<"m","e","d","i","c","a","l">>, <<"c","l","i","n","i","c">>, <<"c","e","n","t","e","r">>, <<"h","e","a","l","t","h">>, <<"c","a","r","e">>, <<"n","u","r","s","i","n","g">>, <<"t","r","a","u","m","a">>, <<"e","r"," ">>, <<"e","m","e","r","g","e","n","c","y"," ","r","o","o","m">>}
    [] service = <<"s","c","h","o","o","l","s">> ->
       {<<"s","c","h","o","o","l">>, <<"u","n","i","v","e","r","s","i","t","y">>, <<"c","o","l","l","e","g","e">>, <<"c","a","m","p","u","s">>, <<"d","i","s","t","r","i","c","t">>, <<"e","d","u","c","a","t","i","o","n">>, <<"a","c","a","d","e","m","y">>, <<"s","t","u","d","e","n","t">>, <<"f","a","c","u","l","t","y">>, <<"b","u","s"," ","b","a","r","n">>}
    [] service = <<"c","o","r","r","e","c","t","i","o","n","s">> ->
       {<<"c","o","r","r","e","c","t","i","o","n">>, <<"p","r","i","s","o","n">>, <<"j","a","i","l">>, <<"d","e","t","e","n","t","i","o","n">>, <<"p","e","n","i","t","e","n","t","i","a","r","y">>, <<"w","a","r","d","e","n">>, <<"i","n","m","a","t","e">>, <<"j","u","s","t","i","c","e"," ","c","e","n","t","e","r">>}
    [] service = <<"s","e","c","u","r","i","t","y">> ->
       {<<"s","e","c","u","r","i","t","y">>, <<"p","a","t","r","o","l">>, <<"g","u","a","r","d">>, <<"p","r","o","t","e","c","t","i","o","n">>, <<"l","o","s","s"," ","p","r","e","v","e","n","t","i","o","n">>, <<"s","a","f","e","t","y">>}
    [] service = <<"m","u","l","t","i","-","d","i","s","p","a","t","c","h">> ->
       {<<"d","i","s","p","a","t","c","h">>, <<"c","o","m","m","u","n","i","c","a","t","i","o","n">>, <<"9","1","1">>, <<"c","e","n","t","e","r">>, <<"i","n","t","e","r","o","p">>}
    [] OTHER -> {}
isCategoryAllowed(category, allowedSet) ==
  LET c == toLowerCase(category) IN
  \/ \E allowed \in allowedSet : \E kw \in serviceKeywords(allowed) : includes(c, kw)
  \/ \E allowed \in allowedSet : includes(c, allowed)

\* x || ''
orEmpty(x) == IF Truthy(x) THEN x.v ELSE <<>>

\* JSON.parse(JSON.stringify(x)): a copy that shares nothing with x; a field
\* that is undefined stays absent, an undefined element of an array becomes null
RECURSIVE jsonClone(_)
jsonClone(x) ==
  CASE x.t = "array" ->
         Arr([i \in 1..Len(x.v) |->
                IF x.v[i].t = "undefined" THEN Null ELSE jsonClone(x.v[i])])
    [] x.t = "object" ->
         [f \in DOMAIN x |-> IF f = "t" THEN x.t ELSE jsonClone(x[f])]
    [] OTHER -> x

\* tg => isCategoryAllowed((tg.tag || tg.description || '').toLowerCase(), allowedcats)
talkgroupAllowed(tg, allowedcats) ==
  isCategoryAllowed(IF Truthy(tg.tag) THEN tg.tag.v ELSE orEmpty(tg.description),
                    allowedcats)

\* variant: the talkgroups that do not match are spliced out of the list
\* while the list is being walked
RECURSIVE spliceWhileWalking(_, _, _)
spliceWhileWalking(list, i, allowedcats) ==
  IF i > Len(list) THEN list
  ELSE IF talkgroupAllowed(list[i], allowedcats)
       THEN spliceWhileWalking(list, i + 1, allowedcats)
       ELSE spliceWhileWalking(SubSeq(list, 1, i - 1) \o SubSeq(list, i + 1, Len(list)),
                               i + 1, allowedcats)
filterTalkgroups_spliceWhileWalking(sys, allowedcats) ==
  IF Truthy(sys.talkgroups)
  THEN [sys EXCEPT !.talkgroups = Arr(spliceWhileWalking(sys.talkgroups.v, 1, allowedcats))]
  ELSE sys

filterTalkgroups(sys, allowedcats) ==
  IF Truthy(sys.talkgroups)
  THEN [sys EXCEPT !.talkgroups = Arr(SelectSeq(sys.talkgroups.v,
          LAMBDA tg : talkgroupAllowed(tg, allowedcats)))]
  ELSE sys

\* the filter applied to result, the copy (or the record itself)
filterRecord(result, services) ==
  LET allowedcats == {toLowerCase(services[i]) : i \in 1..Len(services)}
      agencies == IF Truthy(result.agencies)
                  THEN Arr(SelectSeq(result.agencies.v,
                         LAMBDA agency : isCategoryAllowed(orEmpty(agency.category), allowedcats)))
                  ELSE result.agencies
      systems == IF Truthy(result.trunkedSystems)
                 THEN Arr([i \in 1..Len(result.trunkedSystems.v) |->
                            filterTalkgroups(result.trunkedSystems.v[i], allowedcats)])
                 ELSE result.trunkedSystems
  IN [result EXCEPT !.agencies = agencies, !.trunkedSystems = systems]

filterDataByServices(data, services) ==
  IF ~Truthy(data) THEN Null
  ELSE filterRecord(jsonClone(data), services)

\* the filter applied to the locations of result, the copy (or the trip itself)
filterLocations(result, services) ==
  IF Truthy(result.locations)
  THEN [result EXCEPT !.locations = Arr([i \in 1..Len(result.locations.v) |->
          LET loc == result.locations.v[i] IN
          IF Truthy(loc.data)
          THEN [loc EXCEPT !.data = filterDataByServices(loc.data, services)]
          ELSE loc])]
  ELSE result

filterTripByServices(trip, services) ==
  IF ~Truthy(trip) THEN Null
  ELSE filterLocations(jsonClone(trip), services)

\* variant: no deep copy, the filter works on the record it was given
filterDataCall_inPlace(data, services) ==
  IF ~Truthy(data) THEN [arg |-> data, result |-> Null]
  ELSE [arg |-> filterRecord(data, services), result |-> filterRecord(data, services)]

\* a call of filterDataByServices: the caller's record after the call, and
\* the record returned; all writes of the call go to the copy
filterDataCall(data, services) ==
  [arg |-> data, result |-> filterDataByServices(data, services)]

\* a call of filterTripByServices, likewise
filterTripCall(trip, services) ==
  [arg |-> trip, result |-> filterTripByServices(trip, services)]
\* ------------------------------------------------------------ cache adapter
\* .from('search_cache').select(...).eq('search_key', key).single():
\* the one row of that key, or an error when there is none (or several) or
\* when the request itself fails
NoRow == [t |-> "undefined"]
selectSingle(table, key, requestFails) ==
  LET rows == {r \in table : r.search_key = key} IN
  IF ~requestFails /\ Cardinality(rows) = 1
  THEN CHOOSE r \in rows : TRUE
  ELSE NoRow

\* sys.frequencies === undefined for some system of the list
hasOldSchema(systems) ==
  \E i \in 1..Len(systems.v) : systems.v[i].frequencies.t = "undefined"

\* variant: the detection looks at the top-level systems only
isStale_topLevelOnly(result) ==
  /\ Truthy(result.trunkedSystems) /\ IsArray(result.trunkedSystems)
  /\ hasOldSchema(result.trunkedSystems)

\* the stale-cache detection
isStale(result) ==
  \/ /\ Truthy(result.trunkedSystems) /\ IsArray(result.trunkedSystems)
     /\ hasOldSchema(result.trunkedSystems)
  \/ /\ Truthy(result.locations) /\ IsArray(result.locations)
     /\ \E i \in 1..Len(result.locations.v) :
          LET loc == result.locations.v[i] IN
          /\ Truthy(loc.data)
          /\ Truthy(loc.data.trunkedSystems)
          /\ hasOldSchema(loc.data.trunkedSystems)

\* variant: every served record is stamped
stampSource_always(x) == [x EXCEPT !.source = Str(<<"C","a","c","h","e">>)]

\* if (x.source !== 'API') x.source = 'Cache'
stampSource(x) == IF x.source # Str(<<"A","P","I">>) THEN [x EXCEPT !.source = Str(<<"C","a","c","h","e">>)] ELSE x

\* systems.forEach(s => { if (!s.frequencies) s.frequencies = []; })
normalizeSystems(x) ==
  IF Truthy(x.trunkedSystems)
  THEN [x EXCEPT !.trunkedSystems = Arr([i \in 1..Len(x.trunkedSystems.v) |->
          LET s == x.trunkedSystems.v[i] IN
          IF ~Truthy(s.frequencies) THEN [s EXCEPT !.frequencies = Arr(<<>>)] ELSE s])]
  ELSE x

normalizeLocations(x) ==
  IF Truthy(x.locations)
  THEN [x EXCEPT !.locations = Arr([i \in 1..Len(x.locations.v) |->
          LET loc == x.locations.v[i] IN
          IF Truthy(loc.data)
          THEN [loc EXCEPT !.data = normalizeSystems(stampSource(loc.data))]
          ELSE loc])]
  ELSE x

\* variant: no quality check of an AI-sourced entry against the credentials
getFromCache_noQualityCheck(row, rrCredentials) ==
  IF row = NoRow THEN Null
  ELSE LET result == row.result_data IN
       IF Truthy(result) /\ isStale(result) THEN Null
       ELSE [t |-> "object",
             data |-> IF Truthy(result)
                      THEN normalizeLocations(normalizeSystems(stampSource(result)))
                      ELSE result,
             groundingChunks |-> row.grounding_chunks]

\* getFromCache applied to the row the lookup produced; Null is a miss
getFromCache(row, rrCredentials) ==
  IF row = NoRow THEN Null
  ELSE LET result == row.result_data IN
       IF Truthy(result) /\ result.source = Str(<<"A","I">>) /\ rrCredentials THEN Null
       ELSE IF Truthy(result) /\ isStale(result) THEN Null
       ELSE [t |-> "object",
             data |-> IF Truthy(result)
                      THEN normalizeLocations(normalizeSystems(stampSource(result)))
                      ELSE result,
             groundingChunks |-> row.grounding_chunks]

\* variant: a plain insert, which keeps the row the key already has
saveToCache_insert(table, key, resultData, groundingChunks, requestFails) ==
  IF requestFails THEN table
  ELSE table \cup {[search_key |-> key, result_data |-> resultData,
                    grounding_chunks |-> groundingChunks]}

\* upsert({search_key, result_data, grounding_chunks}, {onConflict: 'search_key'});
\* a failed request is swallowed and leaves the table as it was
saveToCache(table, key, resultData, groundingChunks, requestFails) ==
  IF requestFails THEN table
  ELSE {r \in table : r.search_key # key}
         \cup {[search_key |-> key, result_data |-> resultData,
                grounding_chunks |-> groundingChunks]}

\* ------------------------------------------------------------- data values
Obj == "object"
Frequency(freq) == [t |-> Obj, freq |-> Str(freq)]
Talkgroup(dec, tag, description) ==
  [t |-> Obj, dec |-> Str(dec), tag |-> tag, description |-> description]
Agency(name, category, frequencies, origin) ==
  [t |-> Obj, name |-> name, category |-> category,
   frequencies |-> frequencies, origin |-> origin]
TrunkedSystem(name, frequencies, talkgroups, origin) ==
  [t |-> Obj, name |-> name, frequencies |-> frequencies,
   talkgroups |-> talkgroups, origin |-> origin]
ScanResult(source, summary, agencies, trunkedSystems) ==
  [t |-> Obj, source |-> source, summary |-> summary, agencies |-> agencies,
   trunkedSystems |-> trunkedSystems, locations |-> Undefined]
TripLocation(locationName, data) ==
  [t |-> Obj, locationName |-> Str(locationName), data |-> data]
TripResult(locations) ==
  [t |-> Obj, source |-> Undefined, summary |-> Undefined, agencies |-> Undefined,
   trunkedSystems |-> Undefined, locations |-> locations]

\* agencies.forEach(a => a.origin = o)
markOrigin(list, o) ==
  IF Truthy(list)
  THEN Arr([i \in 1..Len(list.v) |-> [list.v[i] EXCEPT !.origin = Str(o)]])
  ELSE list

\* variant: any master record passes, empty or not
isNonEmpty_anyRecord(masterData) == Truthy(masterData)

\* masterData.agencies?.length > 0 || masterData.trunkedSystems?.length > 0
isNonEmpty(masterData) ==
  Truthy(masterData)
    /\ (LengthPositive(masterData.agencies) \/ LengthPositive(masterData.trunkedSystems))

\* --------------------------------------------- what the two back ends answer
TG_LAW == Talkgroup(<<"1","0","1">>, Str(<<"L","a","w"," ","D","i","s","p","a","t","c","h">>), Str(<<"D","i","s","p","a","t","c","h">>))
TG_FIRE == Talkgroup(<<"2","0","2">>, Undefined, Str(<<"F","i","r","e"," ","O","p","s">>))
FREQ == Frequency(<<"1","5","5",".","0","0","0","0">>)

\* the data field of a 200 answer of /api/search: the handler has made
\* agencies, trunkedSystems, frequencies and talkgroups arrays, names and
\* categories are whatever the generated text held
AI_EMPTY == ScanResult(Str(<<"A","I">>), Str(<<"a","i">>), Arr(<<>>), Arr(<<>>))
AI_FULL ==
  ScanResult(Str(<<"A","I">>), Str(<<"a","i">>),
    Arr(<< Agency(Str(<<"M","e","t","r","o"," ","P","o","l","i","c","e">>), Str(<<"P","o","l","i","c","e">>), Arr(<<FREQ>>), Undefined) >>),
    Arr(<< TrunkedSystem(Str(<<"S","t","a","t","e"," ","N","e","t">>), Arr(<<>>), Arr(<<TG_LAW, TG_FIRE>>), Undefined) >>))
AI_FIRE ==
  ScanResult(Str(<<"A","I">>), Str(<<"a","i">>),
    Arr(<< Agency(Str(<<"C","o","u","n","t","y"," ","F","i","r","e">>), Str(<<"F","i","r","e">>), Arr(<<FREQ>>), Undefined) >>),
    Arr(<<>>))
AI_NAMELESS ==
  ScanResult(Str(<<"A","I">>), Str(<<"a","i">>),
    Arr(<< Agency(Undefined, Str(<<"P","o","l","i","c","e">>), Arr(<<>>), Undefined) >>),
    Arr(<<>>))
AISearchData == {AI_EMPTY, AI_FULL, AI_FIRE, AI_NAMELESS}

\* the data field of a 200 answer of /api/rrdb
RR_EMPTY == ScanResult(Str(<<"A","P","I">>), Str(<<"r","r">>), Arr(<<>>), Arr(<<>>))
RR_FULL ==
  ScanResult(Str(<<"A","P","I">>), Str(<<"r","r">>),
    Arr(<< Agency(Str(<<"M","E","T","R","O"," ","P","O","L","I","C","E">>), Str(<<"P","o","l","i","c","e">>), Arr(<<FREQ>>), Undefined) >>),
    Arr(<< TrunkedSystem(Str(<<"S","t","a","t","e","-","N","e","t">>), Arr(<<FREQ>>), Arr(<<TG_LAW>>), Undefined) >>))
RRSearchData == {RR_EMPTY, RR_FULL}

\* an HTTP answer: not ok, or ok with a body
HttpFailure == [ok |-> FALSE, data |-> Null]
HttpOk(data) == [ok |-> TRUE, data |-> data]

AIResponses == {HttpFailure, HttpOk(Null)} \cup {HttpOk(d) : d \in AISearchData}
RRResponses == {HttpFailure} \cup {HttpOk(d) : d \in RRSearchData}

\* the aiPromise of searchFrequencies
aiPath(response) ==
  IF ~response.ok THEN Null
  ELSE LET data == response.data IN
       IF Truthy(data)
       THEN [data EXCEPT !.source = Str(<<"A","I">>),
                         !.agencies = markOrigin(data.agencies, <<"A","I">>),
                         !.trunkedSystems = markOrigin(data.trunkedSystems, <<"A","I">>)]
       ELSE data

\* the rrPromise of searchFrequencies (fetchFromRadioReference throws on a bad status)
rrPath(response) ==
  IF ~response.ok THEN Null
  ELSE LET data == response.data IN
       IF Truthy(data)
       THEN [data EXCEPT !.source = Str(<<"A","P","I">>),
                         !.agencies = markOrigin(data.agencies, <<"R","R">>),
                         !.trunkedSystems = markOrigin(data.trunkedSystems, <<"R","R">>)]
       ELSE data

\* the MERGE LOGIC of searchFrequencies: master record and rawText, Null when
\* both paths yielded nothing
masterRecord(rrResult, aiResult) ==
  IF Truthy(rrResult) /\ Truthy(aiResult)
  THEN LET m == mergeResults(rrResult, aiResult) IN
       IF m.threw THEN m
       ELSE Ok([masterData |-> m.v, rawText |-> "Merged Hybrid Results (RR + AI)"])
  ELSE IF Truthy(rrResult)
  THEN Ok([masterData |-> rrResult, rawText |-> "RadioReference Results"])
  ELSE IF Truthy(aiResult)
  THEN Ok([masterData |-> aiResult, rawText |-> "AI Results"])
  ELSE Ok([masterData |-> Null, rawText |-> ""])


\* ------------------------------------------- RadioReference handler: helpers
\* parseInt(str) of a string read off a document: the value of its leading
\* digits, -1 standing for NaN when there is none
parseInt(str) ==
  LET digitValue(ch) ==
        CASE ch = "0" -> 0 [] ch = "1" -> 1 [] ch = "2" -> 2 [] ch = "3" -> 3
          [] ch = "4" -> 4 [] ch = "5" -> 5 [] ch = "6" -> 6 [] ch = "7" -> 7
          [] ch = "8" -> 8 [] OTHER -> 9
      lead == IF \E i \in 1..Len(str) : str[i] \notin Digits
              THEN (CHOOSE i \in 1..Len(str) :
                      str[i] \notin Digits /\ \A j \in 1..(i - 1) : str[j] \in Digits) - 1
              ELSE Len(str)
      value[n \in 0..Len(str)] ==
        IF n = 0 THEN 0 ELSE 10 * value[n - 1] + digitValue(str[n])
  IN IF lead = 0 THEN -1 ELSE value[lead]

\* the decimal digit for d, and the decimal text of a state id below 100
DigitChar(d) == CHOOSE ch \in Digits : parseInt(<< ch >>) = d
StateIdText(id) ==
  IF id < 10 THEN << DigitChar(id) >> ELSE << DigitChar(id \div 10), DigitChar(id % 10) >>
\* inferStateIdFromZip: the rules in the order of the source, first match wins
inferStateIdFromZip(zip) ==
  LET prefix == parseInt(SubSeq(zip, 1, IF Len(zip) < 2 THEN Len(zip) ELSE 2))
      prefix3 == parseInt(SubSeq(zip, 1, IF Len(zip) < 3 THEN Len(zip) ELSE 3))
      known(stid) == Str(stid)
  IN
  IF Len(zip) < 3 THEN Null
  ELSE IF prefix < 0 THEN Null
  ELSE IF prefix >= 35 /\ prefix <= 36 THEN known(<<"1">>)
  ELSE IF prefix = 99 THEN known(<<"2">>)
  ELSE IF prefix >= 85 /\ prefix <= 86 THEN known(<<"3">>)
  ELSE IF prefix >= 71 /\ prefix <= 72 THEN known(<<"4">>)
  ELSE IF prefix >= 90 /\ prefix <= 96 THEN known(<<"5">>)
  ELSE IF prefix >= 80 /\ prefix <= 81 THEN known(<<"6">>)
  ELSE IF prefix = 6 THEN known(<<"7">>)
  ELSE IF prefix = 19 THEN known(<<"8">>)
  ELSE IF prefix >= 32 /\ prefix <= 34 THEN known(<<"9">>)
  ELSE IF (prefix >= 30 /\ prefix <= 31) \/ prefix = 39 THEN known(<<"1","0">>)
  ELSE IF prefix = 96 THEN known(<<"1","1">>)
  ELSE IF prefix = 83 THEN known(IF prefix3 = 830 \/ prefix3 = 831 THEN <<"5","0">> ELSE <<"1","2">>)
  ELSE IF prefix >= 60 /\ prefix <= 62 THEN known(<<"1","3">>)
  ELSE IF prefix >= 46 /\ prefix <= 47 THEN known(<<"1","4">>)
  ELSE IF prefix >= 50 /\ prefix <= 52 THEN known(<<"1","5">>)
  ELSE IF prefix >= 66 /\ prefix <= 67 THEN known(<<"1","6">>)
  ELSE IF prefix >= 40 /\ prefix <= 42 THEN known(<<"1","7">>)
  ELSE IF prefix >= 70 /\ prefix <= 71 THEN known(<<"1","8">>)
  ELSE IF prefix >= 3 /\ prefix <= 4 THEN known(<<"1","9">>)
  ELSE IF prefix >= 20 /\ prefix <= 21 THEN known(<<"2","0">>)
  ELSE IF (prefix >= 1 /\ prefix <= 2) \/ prefix = 5 THEN known(<<"2","1">>)
  ELSE IF prefix >= 48 /\ prefix <= 49 THEN known(<<"2","2">>)
  ELSE IF prefix >= 55 /\ prefix <= 56 THEN known(<<"2","3">>)
  ELSE IF prefix >= 38 /\ prefix <= 39 THEN known(<<"2","4">>)
  ELSE IF prefix >= 63 /\ prefix <= 65 THEN known(<<"2","5">>)
  ELSE IF prefix = 59 THEN known(<<"2","6">>)
  ELSE IF prefix >= 68 /\ prefix <= 69 THEN known(<<"2","7">>)
  ELSE IF prefix >= 88 /\ prefix <= 89 THEN known(<<"2","8">>)
  ELSE IF prefix = 3 THEN known(<<"2","9">>)
  ELSE IF prefix >= 7 /\ prefix <= 8 THEN known(<<"3","0">>)
  ELSE IF prefix >= 87 /\ prefix <= 88 THEN known(<<"3","1">>)
  ELSE IF prefix >= 10 /\ prefix <= 14 THEN known(<<"3","2">>)
  ELSE IF prefix >= 27 /\ prefix <= 28 THEN known(<<"3","3">>)
  ELSE IF prefix = 58 THEN known(<<"3","4">>)
  ELSE IF prefix >= 43 /\ prefix <= 45 THEN known(<<"3","5">>)
  ELSE IF prefix >= 73 /\ prefix <= 74 THEN known(<<"3","6">>)
  ELSE IF prefix = 97 THEN known(<<"3","7">>)
  ELSE IF prefix >= 15 /\ prefix <= 19 THEN known(<<"3","8">>)
  ELSE IF prefix = 2 THEN known(<<"3","9">>)
  ELSE IF prefix = 29 THEN known(<<"4","0">>)
  ELSE IF prefix = 57 THEN known(<<"4","1">>)
  ELSE IF prefix >= 37 /\ prefix <= 38 THEN known(<<"4","2">>)
  ELSE IF prefix >= 75 /\ prefix <= 79 THEN known(<<"4","3">>)
  ELSE IF prefix = 84 THEN known(<<"4","4">>)
  ELSE IF prefix = 5 THEN known(<<"4","5">>)
  ELSE IF prefix >= 22 /\ prefix <= 24 THEN known(<<"4","6">>)
  ELSE IF prefix >= 98 /\ prefix <= 99 THEN known(<<"4","7">>)
  ELSE IF prefix >= 24 /\ prefix <= 26 THEN known(<<"4","8">>)
  ELSE IF prefix >= 53 /\ prefix <= 54 THEN known(<<"4","9">>)
  ELSE IF prefix = 82 \/ prefix3 = 830 \/ prefix3 = 831 THEN known(<<"5","0">>)
  ELSE IF prefix3 >= 200 /\ prefix3 <= 205 THEN known(<<"5","1">>)
  ELSE Null

\* the tag names by tag id
TAG_MAP ==
  << <<<<"L","a","w"," ","D","i","s","p","a","t","c","h">>, 1>>, <<<<"L","a","w"," ","T","a","l","k">>, 2>>, <<<<"L","a","w"," ","T","a","c","t","i","c","a","l">>, 3>>,
     <<<<"F","i","r","e"," ","D","i","s","p","a","t","c","h">>, 4>>, <<<<"F","i","r","e"," ","T","a","l","k">>, 5>>, <<<<"F","i","r","e"," ","T","a","c","t","i","c","a","l">>, 6>>,
     <<<<"E","M","S"," ","D","i","s","p","a","t","c","h">>, 7>>, <<<<"E","M","S"," ","T","a","l","k">>, 8>>, <<<<"E","M","S"," ","T","a","c","t","i","c","a","l">>, 9>>,
     <<<<"H","o","s","p","i","t","a","l">>, 10>>, <<<<"H","a","m">>, 11>>, <<<<"P","u","b","l","i","c"," ","W","o","r","k","s">>, 12>>,
     <<<<"T","r","a","n","s","p","o","r","t","a","t","i","o","n">>, 14>>, <<<<"M","i","l","i","t","a","r","y">>, 15>>, <<<<"F","e","d","e","r","a","l">>, 16>>,
     <<<<"C","o","r","r","e","c","t","i","o","n","s">>, 18>>, <<<<"S","c","h","o","o","l","s">>, 20>>, <<<<"S","e","c","u","r","i","t","y">>, 21>>,
     <<<<"U","t","i","l","i","t","i","e","s">>, 22>>, <<<<"A","i","r">>, 23>>, <<<<"R","a","i","l","r","o","a","d">>, 25>>, <<<<"M","a","r","i","n","e">>, 26>>,
     <<<<"B","u","s","i","n","e","s","s">>, 29>>, <<<<"M","u","l","t","i","-","D","i","s","p","a","t","c","h">>, 30>> >>

getTagIdsForService(serviceType) ==
  LET st == toLowerCase(serviceType) IN
  CASE st = <<"p","o","l","i","c","e">> -> {1, 2, 3}
    [] st = <<"f","i","r","e">> -> {4, 5, 6}
    [] st = <<"e","m","s">> -> {7, 8, 9}
    [] st = <<"h","o","s","p","i","t","a","l">> \/ st = <<"h","o","s","p","i","t","a","l","s">> -> {10}
    [] st = <<"h","a","m"," ","r","a","d","i","o">> -> {11}
    [] st = <<"p","u","b","l","i","c"," ","w","o","r","k","s">> -> {12}
    [] st = <<"t","r","a","n","s","p","o","r","t","a","t","i","o","n">> -> {14}
    [] st = <<"m","i","l","i","t","a","r","y">> -> {15}
    [] st = <<"f","e","d","e","r","a","l">> -> {16}
    [] st = <<"c","o","r","r","e","c","t","i","o","n","s">> -> {18}
    [] st = <<"s","c","h","o","o","l","s">> -> {20}
    [] st = <<"s","e","c","u","r","i","t","y">> -> {21}
    [] st = <<"u","t","i","l","i","t","i","e","s">> -> {22}
    [] st = <<"a","i","r">> -> {23}
    [] st = <<"r","a","i","l","r","o","a","d">> -> {25}
    [] st = <<"m","a","r","i","n","e">> -> {26}
    [] st = <<"b","u","s","i","n","e","s","s">> -> {29}
    [] st = <<"m","u","l","t","i","-","d","i","s","p","a","t","c","h">> -> {30}
    [] OTHER -> {}

\* the first name of TAG_MAP with that id, 'Other' when there is none
getTagName(tagId) ==
  IF \E i \in 1..Len(TAG_MAP) : TAG_MAP[i][2] = tagId
  THEN TAG_MAP[CHOOSE i \in 1..Len(TAG_MAP) :
                 TAG_MAP[i][2] = tagId /\ \A j \in 1..(i - 1) : TAG_MAP[j][2] # tagId][1]
  ELSE <<"O","t","h","e","r">>

\* the relevant tag ids of a request; empty means no tag filter
relevantTagIds(safeServices) ==
  IF Len(safeServices) > 12 THEN {}
  ELSE UNION { getTagIdsForService(safeServices[i]) : i \in 1..Len(safeServices) }
         \cup {15, 16, 25}

inferCategory(catName, subcatName) ==
  LET combined == toLowerCase(catName \o <<" ">> \o subcatName)
      has(kw) == includes(combined, kw)
  IN
  IF has(<<"p","o","l","i","c","e">>) \/ has(<<"s","h","e","r","i","f","f">>) \/ has(<<"l","a","w">>) THEN <<"P","o","l","i","c","e">>
  ELSE IF has(<<"f","i","r","e">>) \/ has(<<"r","e","s","c","u","e">>) THEN <<"F","i","r","e">>
  ELSE IF has(<<"e","m","s">>) \/ has(<<"m","e","d","i","c">>) \/ has(<<"a","m","b","u","l","a","n","c","e">>) THEN <<"E","M","S">>
  ELSE IF has(<<"f","e","d","e","r","a","l">>) THEN <<"F","e","d","e","r","a","l">>
  ELSE IF has(<<"m","i","l","i","t","a","r","y">>) THEN <<"M","i","l","i","t","a","r","y">>
  ELSE IF has(<<"a","i","r">>) \/ has(<<"a","v","i","a","t","i","o","n">>) THEN <<"A","i","r">>
  ELSE IF has(<<"m","a","r","i","n","e">>) THEN <<"M","a","r","i","n","e">>
  ELSE IF has(<<"r","a","i","l","r","o","a","d">>) \/ has(<<"r","a","i","l">>) THEN <<"R","a","i","l","r","o","a","d">>
  ELSE IF has(<<"h","a","m">>) \/ has(<<"a","m","a","t","e","u","r">>) THEN <<"H","a","m"," ","R","a","d","i","o">>
  ELSE IF has(<<"p","u","b","l","i","c"," ","w","o","r","k","s">>) THEN <<"P","u","b","l","i","c"," ","W","o","r","k","s">>
  ELSE IF has(<<"u","t","i","l","i","t","y">>) \/ has(<<"u","t","i","l","i","t","i","e","s">>) THEN <<"U","t","i","l","i","t","i","e","s">>
  ELSE IF has(<<"t","r","a","n","s","p","o","r","t">>) THEN <<"T","r","a","n","s","p","o","r","t","a","t","i","o","n">>
  ELSE IF has(<<"h","o","s","p","i","t","a","l">>) THEN <<"H","o","s","p","i","t","a","l","s">>
  ELSE IF has(<<"s","c","h","o","o","l">>) THEN <<"S","c","h","o","o","l","s">>
  ELSE IF has(<<"c","o","r","r","e","c","t","i","o","n">>) \/ has(<<"p","r","i","s","o","n">>) \/ has(<<"j","a","i","l">>) THEN <<"C","o","r","r","e","c","t","i","o","n","s">>
  ELSE IF has(<<"s","e","c","u","r","i","t","y">>) THEN <<"S","e","c","u","r","i","t","y">>
  ELSE IF has(<<"b","u","s","i","n","e","s","s">>) THEN <<"B","u","s","i","n","e","s","s">>
  ELSE IF catName # <<>> THEN catName ELSE <<"O","t","h","e","r">>

\* parseFloat(text).toFixed(4) of a decimal numeral with at most four
\* fraction digits: the integer part without leading zeros, the fraction
\* padded with zeros
toFixed4(text) ==
  LET dot == IF \E i \in 1..Len(text) : text[i] = "."
             THEN CHOOSE i \in 1..Len(text) : text[i] = "." /\ \A j \in 1..(i - 1) : text[j] # "."
             ELSE Len(text) + 1
      whole == SubSeq(text, 1, dot - 1)
      RECURSIVE strip(_)
      strip(s) == IF Len(s) > 1 /\ Head(s) = "0" THEN strip(Tail(s)) ELSE s
      fraction == SubSeq(text, dot + 1, Len(text))
      RECURSIVE pad(_)
      pad(s) == IF Len(s) < 4 THEN pad(s \o <<"0">>) ELSE SubSeq(s, 1, 4)
  IN strip(IF whole = <<>> THEN <<"0">> ELSE whole) \o <<".">> \o pad(fraction)

\* the tag test of parseFrequencies and parseTalkgroups
keptByTags(tagIds, relevant) ==
  LET hasRelevantTag == relevant = {} \/ \E i \in 1..Len(tagIds) : tagIds[i] \in relevant
  IN ~(~hasRelevantTag /\ Len(tagIds) > 0)
tagNameOf(tagIds) == IF Len(tagIds) > 0 THEN getTagName(tagIds[1]) ELSE <<"O","t","h","e","r">>

\* parseFrequencies over the items of a getSubcatFreqs answer
parseFrequencies(items, relevant) ==
  LET isZero(text) == \A i \in 1..Len(text) : text[i] \in {"0", "."}
      isNumber(text) == text # <<>> /\ (text[1] \in Digits \/ (text[1] = "." /\ Len(text) > 1))
      kept == SelectSeq(items, LAMBDA item :
                /\ item.out # <<>> /\ item.out # <<"0">>
                /\ keptByTags(item.tagIds, relevant)
                /\ isNumber(item.out) /\ ~isZero(item.out))
  IN [i \in 1..Len(kept) |->
        [t |-> Obj, freq |-> Str(toFixed4(kept[i].out)),
         description |-> Str(kept[i].descr), tag |-> Str(tagNameOf(kept[i].tagIds))]]

\* parseTalkgroups over the items of a getTrsTalkgroups answer
parseTalkgroups(items, relevant) ==
  LET kept == SelectSeq(items, LAMBDA item :
                /\ item.tgDec # <<>> /\ item.tgDec # <<"0">>
                /\ keptByTags(item.tagIds, relevant))
  IN [i \in 1..Len(kept) |->
        [t |-> Obj, dec |-> Str(kept[i].tgDec), description |-> Str(kept[i].tgDescr),
         tag |-> Str(tagNameOf(kept[i].tagIds))]]

\* variant: the sites in document order
parseSites_unsorted(items, targetCtid) ==
  LET siteFreqs(s) ==
        LET kept == SelectSeq(s.siteFreqs, LAMBDA f : f # <<>> /\ f # <<"0">>)
        IN Arr([i \in 1..Len(kept) |-> [t |-> Obj, freq |-> Str(toFixed4(kept[i]))]])
  IN [i \in 1..Len(items) |->
        [siteDescr |-> IF items[i].siteDescr # <<>> THEN items[i].siteDescr
                       ELSE <<"U","n","k","n","o","w","n"," ","S","i","t","e">>,
         frequencies |-> siteFreqs(items[i])]]

\* parseSites: the sites of the target county first (the sort is stable),
\* each with its control-channel frequencies
parseSites(items, targetCtid) ==
  LET sorted == SelectSeq(items, LAMBDA s : s.siteCtid = targetCtid)
                  \o SelectSeq(items, LAMBDA s : s.siteCtid # targetCtid)
      siteFreqs(s) ==
        LET kept == SelectSeq(s.siteFreqs, LAMBDA f : f # <<>> /\ f # <<"0">>)
        IN Arr([i \in 1..Len(kept) |-> [t |-> Obj, freq |-> Str(toFixed4(kept[i]))]])
  IN [i \in 1..Len(sorted) |->
        [siteDescr |-> IF sorted[i].siteDescr # <<>> THEN sorted[i].siteDescr
                       ELSE <<"U","n","k","n","o","w","n"," ","S","i","t","e">>,
         frequencies |-> siteFreqs(sorted[i])]]

\* ------------------------------- RadioReference handler: what the provider holds
\* The provider's documents are given as the values getItems and
\* getTextContent read off them.  Ids of subcategories and systems are numbers
\* (0 for an absent or zero id); county and state ids are strings.
SubcatCap == 150
TrsCap == 50
batchSize == 10

\* the candidates of a getZipcodeInfo answer
ZipCandidates ==
  { [ctid |-> c, stid |-> s,
     city |-> IF c = <<"7">> THEN <<"H","u","r","r","i","c","a","n","e">> ELSE IF c = <<"9">> THEN <<"B","o","i","s","e">> ELSE <<>>] :
      c \in { <<>>, <<"0">>, <<"5">>, <<"7">>, <<"9">> }, s \in { <<"4","4">>, <<"1","6">> } }

MaxCandidates == 2
ZipAnswers ==
  LET lists == UNION { [1..n -> ZipCandidates] : n \in 1..MaxCandidates }
      faults == { <<>>, <<"I","n","v","a","l","i","d"," ","u","s","e","r","n","a","m","e"," ","o","r"," ","p","a","s","s","w","o","r","d">> }
  IN [items : lists, root : {CHOOSE c \in ZipCandidates : c.ctid = <<>>}, faultstring : faults]
       \cup [items : {<<>>}, root : ZipCandidates, faultstring : faults]

\* getCountyInfo: county 9 has two subcategories fewer than the cap, county 5
\* one system more than the cap, otherwise a county has two of each; one entry
\* of each list has no id
getCountyInfo(ctid) ==
  LET big == ctid = <<"9">>
      first == IF big THEN 100 ELSE 1
      last == IF big THEN SubcatCap - 2 ELSE 2
  IN [countyName |-> IF big THEN <<"A","d","a">> ELSE <<>>,
      cats |-> << [cName |-> <<"C","o","u","n","t","y"," ","S","h","e","r","i","f","f">>,
                   subcats |-> [i \in 1..first |-> i] \o <<0>>],
                  [cName |-> <<>>, subcats |-> <<>>],
                  [cName |-> <<"R","o","a","d"," ","D","e","p","t">>,
                   subcats |-> [i \in 1..(last - first) |-> first + i]] >>,
      trsList |-> [i \in 1..(IF ctid = <<"5">> THEN TrsCap + 1 ELSE 2) |-> i] \o <<0>>]

\* getStateInfo: state 44 has four subcategories, the other states one
getStateInfo(stid) ==
  [cats |-> << [cName |-> <<"S","t","a","t","e"," ","P","o","l","i","c","e">>,
                subcats |-> IF stid = <<"4","4">> THEN <<501, 502, 503, 504>> ELSE <<501>>] >>]

\* the scName of a subcategory
scNameOf(scid) ==
  CASE scid % 3 = 0 -> <<>> [] scid % 3 = 1 -> <<"D","i","s","p","a","t","c","h">> [] OTHER -> <<"F","i","r","e"," ","R","e","s","c","u","e">>

\* parseSubcategories: the subcategories of every category, in document order
parseSubcategories(doc) ==
  LET ofCat(cat) ==
        LET valid == SelectSeq(cat.subcats, LAMBDA scid : scid # 0)
        IN [i \in 1..Len(valid) |->
              [scid |-> valid[i],
               name |-> IF scNameOf(valid[i]) # <<>> THEN scNameOf(valid[i]) ELSE cat.cName,
               catName |-> cat.cName]]
      flat[n \in 0..Len(doc.cats)] ==
        IF n = 0 THEN <<>> ELSE flat[n - 1] \o ofCat(doc.cats[n])
  IN flat[Len(doc.cats)]

\* parseTrsList
parseTrsList(doc) ==
  LET valid == SelectSeq(doc.trsList, LAMBDA sid : sid # 0)
  IN [i \in 1..Len(valid) |->
        [sid |-> valid[i], sName |-> IF valid[i] % 2 = 0 THEN <<"C","o","u","n","t","y"," ","N","e","t">> ELSE <<"M","e","t","r","o"," ","N","e","t">>]]

\* the items of the getSubcatFreqs answer for a subcategory
getSubcatFreqs(scid) ==
  LET item(out, tagIds, descr) == [out |-> out, tagIds |-> tagIds, descr |-> descr] IN
  CASE scid % 4 = 0 -> << item(<<"1","5","5",".","2","5">>, <<1>>, <<"D","i","s","p","a","t","c","h">>) >>
    [] scid % 4 = 1 -> << item(<<"4","6","0",".","5">>, <<22>>, <<"W","a","t","e","r">>), item(<<"0">>, <<>>, <<>>) >>
    [] scid % 4 = 2 -> << item(<<"1","5","4",".","1">>, <<>>, <<>>), item(<<"4","5","3",".","0","3","7","5">>, <<4, 1>>, <<"O","p","s">>),
                          item(<<"0",".","0">>, <<1>>, <<>>) >>
    [] OTHER -> <<>>

\* the three answers for a trunked system
getTrsDetails(sid) == [sName |-> IF sid % 4 = 0 THEN <<>> ELSE <<"V","a","l","l","e","y"," ","N","e","t">>]
getTrsSites(sid) ==
  LET site(siteCtid, siteDescr, siteFreqs) ==
        [siteCtid |-> siteCtid, siteDescr |-> siteDescr, siteFreqs |-> siteFreqs] IN
  CASE sid % 3 = 0 -> <<>>
    [] sid % 3 = 1 -> << site(<<"3">>, <<"P","e","a","k">>, << <<"8","5","1",".","0","1","2","5">> >>),
                         site(<<"7">>, <<>>, << <<"0">>, <<"8","5","2",".","5">> >>),
                         site(<<"9">>, <<"T","o","w","e","r">>, <<>>) >>
    [] OTHER -> << site(<<"3">>, <<"R","i","d","g","e">>, << <<"8","5","3">> >>) >>
getTrsTalkgroups(sid) ==
  LET tg(tgDec, tagIds, tgDescr) == [tgDec |-> tgDec, tagIds |-> tagIds, tgDescr |-> tgDescr] IN
  IF sid % 2 = 0
  THEN << tg(<<"1","0","1">>, <<1>>, <<"P","a","t","r","o","l">>), tg(<<"0">>, <<1>>, <<>>), tg(<<"2","0","2">>, <<22>>, <<"W","a","t","e","r">>) >>
  ELSE << tg(<<"3","0","3">>, <<22>>, <<"P","o","w","e","r">>) >>

\* --------------------------------------- RadioReference handler: the request
\* The descriptive fields the handler copies through (mode, alphaTag, tone,
\* nac, type, summary text, crossRef) are left out of the records.
IdleHandler ==
  [pc |-> "idle", req |-> Null, zip |-> <<>>, safeServices |-> <<>>, relevant |-> {}, zipAnswer |-> Null,
   bestMatch |-> Null, prioritizedSubcats |-> <<>>, i |-> 0, trsToFetch |-> <<>>, k |-> 1,
   locationName |-> <<>>,
   agencies |-> <<>>, trunkedSystems |-> <<>>, failed |-> {}, inflight |-> {},
   rpc |-> <<>>, response |-> Null]


\* ---------------------------------------------------------- markup extractor
\* xml.split(/(<\/?item[^>]*>)/): the text between the markers and the markers
splitItems(xml) ==
  LET startsAt(s, p, word) == p + Len(word) - 1 <= Len(s) /\ SubSeq(s, p, p + Len(word) - 1) = word
      RECURSIVE parts(_)
      parts(s) ==
        LET closes(p) == { q \in (p + 5)..Len(s) : s[q] = ">" }
            marks == { p \in 1..Len(s) :
                         /\ startsAt(s, p, <<"<","i","t","e","m">>) \/ startsAt(s, p, <<"<","/","i","t","e","m">>)
                         /\ closes(IF startsAt(s, p, <<"<","/","i","t","e","m">>) THEN p + 1 ELSE p) # {} }
        IN IF marks = {} THEN << s >>
           ELSE LET p == CHOOSE p \in marks : \A r \in marks : p <= r
                    from == IF startsAt(s, p, <<"<","/","i","t","e","m">>) THEN p + 1 ELSE p
                    q == CHOOSE q \in closes(from) : \A r \in closes(from) : q <= r
                IN << SubSeq(s, 1, p - 1), SubSeq(s, p, q) >> \o parts(SubSeq(s, q + 1, Len(s)))
  IN parts(xml)

\* getItems: the depth counter over the parts
getItems(xml) ==
  LET isOpen(part) ==
        \/ \E p \in 1..Len(part) :
             /\ p + 5 <= Len(part)
             /\ toLowerCase(SubSeq(part, p, p + 4)) = <<"<","i","t","e","m">>
             /\ part[p + 5] # "/"
             /\ \E q \in (p + 6)..Len(part) : part[q] = ">"
        \/ part = <<"<","i","t","e","m",">">>
      isClose(part) == includes(toLowerCase(part), <<"<","/","i","t","e","m",">">>)
      lines == splitItems(xml)
      loop[n \in 0..Len(lines)] ==
        IF n = 0 THEN [depth |-> 0, inItem |-> FALSE, currentItem |-> <<>>, results |-> <<>>]
        ELSE LET st == loop[n - 1]
                 part == lines[n]
                 opened == IF isOpen(part) THEN st.depth + 1 ELSE st.depth
             IN IF isOpen(part) /\ opened = 1
                THEN [st EXCEPT !.depth = 1, !.inItem = TRUE, !.currentItem = <<>>]
                ELSE LET closed == IF isClose(part) THEN opened - 1 ELSE opened IN
                     IF isClose(part) /\ closed = 0 /\ st.inItem
                     THEN [st EXCEPT !.depth = 0, !.inItem = FALSE,
                                     !.results = @ \o << st.currentItem >>]
                     ELSE [st EXCEPT !.depth = closed,
                                     !.currentItem = IF st.inItem THEN @ \o part ELSE @]
  IN loop[Len(lines)].results

\* ------------------------------------------------- the /api/search handler
\* JSON.parse on the texts AITexts holds: of those only {}, {"agencies":[]}
\* and null, with white space around them, are JSON
JSONparse(text) ==
  LET body == trim(text) IN
  IF body = <<"{","}">> THEN Ok([t |-> Obj])
  ELSE IF body = <<"{","\"","a","g","e","n","c","i","e","s","\"",":","[","]","}">> THEN Ok([t |-> Obj, agencies |-> Arr(<<>>)])
  ELSE IF body = <<"n","u","l","l">> THEN Ok(Null)
  ELSE Threw("SyntaxError")

\* the first group of the fenced-block match: what follows the first fence
\* opener (three grave accents, json, a line break) up to the first line break
\* with three grave accents, or up to the end of the text; undefined without
\* an opener.  "grave" stands for the grave accent character.
fencedBlock(text) ==
  LET opener == <<"grave", "grave", "grave">> \o <<"j","s","o","n">> \o <<"\n">>
      closer == <<"\n", "grave", "grave", "grave">>
      at(word, p) == p + Len(word) - 1 <= Len(text) /\ SubSeq(text, p, p + Len(word) - 1) = word
      opens == { p \in 1..Len(text) : at(opener, p) }
  IN IF opens = {} THEN Undefined
     ELSE LET from == (CHOOSE p \in opens : \A r \in opens : p <= r) + Len(opener)
              closes == { p \in from..Len(text) : at(closer, p) }
          IN Str(SubSeq(text, from,
                        IF closes = {} THEN Len(text)
                        ELSE (CHOOSE p \in closes : \A r \in closes : p <= r) - 1))

\* text.substring(text.indexOf('{'), text.lastIndexOf('}') + 1), undefined
\* when a brace is missing
braceBlock(text) ==
  LET opens == { p \in 1..Len(text) : text[p] = "{" }
      closes == { p \in 1..Len(text) : text[p] = "}" }
  IN IF opens = {} \/ closes = {} THEN Undefined
     ELSE LET start == CHOOSE p \in opens : \A r \in opens : p <= r
              end == CHOOSE p \in closes : \A r \in closes : p >= r
          IN Str(IF start - 1 <= end THEN SubSeq(text, start, end)
                 ELSE SubSeq(text, end + 1, start - 1))

\* variant: a text that cannot be parsed is answered with an error
aiHandler_errorOnGarbage(responseText) ==
  LET text == IF responseText = <<>> THEN <<"{","}">> ELSE responseText
      first == IF Truthy(fencedBlock(text)) THEN JSONparse(fencedBlock(text).v)
               ELSE JSONparse(text)
      field(o, f) == IF f \in DOMAIN o THEN o[f] ELSE Undefined
      orArray(x) == IF x.t = "array" THEN x ELSE Arr(<<>>)
  IN IF first.threw THEN HttpFailure
     ELSE IF Truthy(first.v)
     THEN HttpOk(ScanResult(Str(<<"A","I">>), field(first.v, "summary"),
                            orArray(field(first.v, "agencies")),
                            orArray(field(first.v, "trunkedSystems"))))
     ELSE HttpOk(first.v)

\* the handler from the model's text to its answer
aiHandler(responseText) ==
  LET text == IF responseText = <<>> THEN <<"{","}">> ELSE responseText
      first == IF Truthy(fencedBlock(text)) THEN JSONparse(fencedBlock(text).v)
               ELSE JSONparse(text)
      data == IF ~first.threw THEN first.v
              ELSE IF braceBlock(text) # Undefined /\ ~JSONparse(braceBlock(text).v).threw
              THEN JSONparse(braceBlock(text).v).v
              ELSE Null
      field(o, f) == IF f \in DOMAIN o THEN o[f] ELSE Undefined
      orArray(x) == IF x.t = "array" THEN x ELSE Arr(<<>>)
  IN IF Truthy(data)
     THEN HttpOk(ScanResult(Str(<<"A","I">>), field(data, "summary"),
                            orArray(field(data, "agencies")),
                            orArray(field(data, "trunkedSystems"))))
     ELSE HttpOk(data)
\* ------------------------------------------------- requests and cache rows
SearchRequest(locationQuery, services, creds) ==
  [op |-> "searchFrequencies", locationQuery |-> locationQuery, start |-> <<>>,
   end |-> <<>>, userSelectedServices |-> services, rrCredentials |-> creds]
TripRequest(start, end, services) ==
  [op |-> "planTrip", locationQuery |-> <<>>, start |-> start, end |-> end,
   userSelectedServices |-> services, rrCredentials |-> FALSE]
NoRequest ==
  [op |-> "none", locationQuery |-> <<>>, start |-> <<>>, end |-> <<>>,
   userSelectedServices |-> <<>>, rrCredentials |-> FALSE]

Locations == { <<"8","4","7","7","0">>, <<"E","l","y">> }
ServiceChoices == { << <<"P","o","l","i","c","e">> >>, << <<"F","i","r","e">>, <<"E","M","S">> >> }
SearchRequests ==
  { SearchRequest(l, s, c) : l \in Locations, s \in ServiceChoices, c \in BOOLEAN }
TripRequests == { TripRequest(<<"E","l","y">>, <<"8","4","7","7","0">>, s) : s \in ServiceChoices }

requestKey(req) ==
  IF req.op = "planTrip"
  THEN tripCacheKey(req.start, req.end, req.userSelectedServices)
  ELSE searchCacheKey(req.locationQuery, req.userSelectedServices, req.rrCredentials)

Row(key, resultData, groundingChunks) ==
  [search_key |-> key, result_data |-> resultData, grounding_chunks |-> groundingChunks]

\* records older versions of the application left in the table
LegacySystems ==
  { TrunkedSystem(Str(<<"O","l","d"," ","N","e","t">>), f, tg, Undefined) :
      f \in {Undefined, Null, Arr(<<FREQ>>)},
      tg \in {Undefined, Arr(<<TG_LAW>>)} }
LegacyScanResults ==
  { d \in { ScanResult(Str(src), Str(<<"o","l","d">>), ags, sys) :
              src \in { <<"A","I">>, <<"A","P","I">>, <<"C","a","c","h","e">> },
              ags \in { Undefined,
                        Arr(<< Agency(Str(<<"M","e","t","r","o"," ","P","o","l","i","c","e">>), Str(<<"P","o","l","i","c","e">>), Arr(<<FREQ>>), Undefined) >>),
                        Arr(<< Agency(Str(<<"C","o","u","n","t","y"," ","F","i","r","e">>), Str(<<"F","i","r","e">>), Undefined, Undefined) >>) },
              sys \in {Undefined, Arr(<<>>)} \cup {Arr(<<s>>) : s \in LegacySystems} } :
      Truthy(d.agencies) \/ LengthPositive(d.trunkedSystems) }
LegacyTripResults ==
  { TripResult(Arr(<< TripLocation(<<"E","l","y">>, d) >>)) : d \in LegacyScanResults \cup {Null} }

\* the answers of /api/trip
TripData ==
  { Null, TripResult(Arr(<<>>)),
    TripResult(Arr(<< TripLocation(<<"E","l","y">>,
      ScanResult(Str(<<"A","I">>), Str(<<"a","i">>),
        Arr(<< Agency(Str(<<"M","e","t","r","o"," ","P","o","l","i","c","e">>), Str(<<"P","o","l","i","c","e">>), Arr(<<FREQ>>), Undefined) >>),
        Arr(<< TrunkedSystem(Str(<<"S","t","a","t","e"," ","N","e","t">>), Arr(<<>>), Arr(<<TG_LAW, TG_FIRE>>), Undefined) >>))) >>)) }
TripResponses == {HttpFailure} \cup {HttpOk(d) : d \in TripData}

\* ------------------------------------------------------------ call records
Pending == [kind |-> "pending"]
Resolved(value) == [kind |-> "resolved", value |-> value]
Rejected(message) == [kind |-> "rejected", message |-> message]

IdleCall ==
  [pc |-> "idle", req |-> NoRequest, cacheKey |-> <<>>,
   aiResult |-> Undefined, rrResult |-> Undefined, masterData |-> Undefined,
   rawText |-> "", masterGrounding |-> Undefined,
   row |-> NoRow, cached |-> Undefined, response |-> Pending]

NoPure == [fn |-> "none"]

\* a row of another location, which no request of the model asks for
BYSTANDER == Row(<<"v","6","_","l","o","c","_","9","0","2","1","0">>, AI_FIRE, Null)

\* the requests that share one cache key
RequestGroups ==
  { {r \in SearchRequests : r.locationQuery = l} : l \in Locations } \cup {TripRequests}
groupKey(group) == requestKey(CHOOSE r \in group : TRUE)
LegacyFor(group) ==
  IF group = TripRequests THEN LegacyTripResults ELSE LegacyScanResults

\* one caller at a time, asking again and again for one location (or one
\* trip); the table may hold a record an older version stored for it
Init ==
  /\ \E group \in RequestGroups :
       /\ reqs = group
       /\ store \in {{BYSTANDER}}
            \cup { {BYSTANDER, Row(groupKey(group), d, Null)} : d \in LegacyFor(group) }
  /\ calls = [c \in {1} |-> IdleCall]
  /\ pureArgs = NoPure
  /\ pureResult = NoPure
  /\ handler = IdleHandler

\* ----------------------------------------------------- searchFrequencies
\* from the call to the await of both paths
searchStart(c) ==
  /\ calls[c].pc = "idle"
  /\ \E req \in reqs :
       /\ req.op = "searchFrequencies"
       /\ calls' = [calls EXCEPT ![c] =
            [IdleCall EXCEPT !.pc = "fetching", !.req = req,
                             !.cacheKey = requestKey(req)]]
  /\ UNCHANGED <<store, reqs, pureArgs, pureResult, handler>>

\* both paths have settled: merge, then the cache backup, the save or the return
searchResolve(c) ==
  LET call == calls[c]
      req == call.req
      safeLocation == sanitizeForPrompt(req.locationQuery)
      rrRuns == req.rrCredentials /\ IsZip(safeLocation)
  IN
  /\ call.pc = "fetching"
  /\ \E ai \in AIResponses, rr \in (IF rrRuns THEN RRResponses ELSE {HttpFailure}) :
       LET aiResult == aiPath(ai)
           rrResult == IF rrRuns THEN rrPath(rr) ELSE Null
           m == masterRecord(rrResult, aiResult)
           settled == [call EXCEPT !.aiResult = aiResult, !.rrResult = rrResult]
       IN calls' = [calls EXCEPT ![c] =
            IF m.threw
            THEN [settled EXCEPT !.pc = "done", !.response = Rejected(m.v)]
            ELSE LET master == [settled EXCEPT !.masterData = m.v.masterData,
                                               !.rawText = m.v.rawText,
                                               !.masterGrounding = Null]
                 IN IF ~Truthy(m.v.masterData)
                    THEN [master EXCEPT !.pc = "cacheBackup"]
                    ELSE IF isNonEmpty(m.v.masterData)
                    THEN [master EXCEPT !.pc = "saving"]
                    ELSE [master EXCEPT !.pc = "done",
                            !.response = Resolved(
                               [data |-> filterDataByServices(m.v.masterData, req.userSelectedServices),
                                groundingChunks |-> Null,
                                rawText |-> m.v.rawText])]]
  /\ UNCHANGED <<store, reqs, pureArgs, pureResult, handler>>

\* all fetches failed: the cache as backup, else the hard error
searchCacheBackup(c) ==
  LET call == calls[c] IN
  /\ call.pc = "cacheBackup"
  /\ \E requestFails \in BOOLEAN :
       LET row == selectSingle(store, call.cacheKey, requestFails)
           cached == getFromCache(row, call.req.rrCredentials)
       IN calls' = [calls EXCEPT ![c] =
            [call EXCEPT !.pc = "done", !.row = row, !.cached = cached,
               !.response =
                 IF Truthy(cached)
                 THEN Resolved(
                        [data |-> filterDataByServices(cached.data, call.req.userSelectedServices),
                         groundingChunks |-> cached.groundingChunks,
                         rawText |-> "Retrieved from Cache (Offline Backup)"])
                 ELSE Rejected("Unable to retrieve frequency data from any source.")]]
  /\ UNCHANGED <<store, reqs, pureArgs, pureResult, handler>>

\* the write-through of a non-empty master record, then the filtered return
searchSave(c) ==
  LET call == calls[c] IN
  /\ call.pc = "saving"
  /\ \E requestFails \in BOOLEAN :
       store' = saveToCache(store, call.cacheKey, call.masterData,
                            call.masterGrounding, requestFails)
  /\ calls' = [calls EXCEPT ![c] =
       [call EXCEPT !.pc = "done",
          !.response = Resolved(
             [data |-> filterDataByServices(call.masterData, call.req.userSelectedServices),
              groundingChunks |-> call.masterGrounding,
              rawText |-> call.rawText])]]
  /\ UNCHANGED <<reqs, pureArgs, pureResult, handler>>

\* the caller has taken the answer; the slot is free for the next call
callReturn(c) ==
  /\ calls[c].pc = "done"
  /\ calls' = [calls EXCEPT ![c] = IdleCall]
  /\ UNCHANGED <<store, reqs, pureArgs, pureResult, handler>>

\* --------------------------------------------------------------- planTrip
\* from the call to the await of the cache lookup
tripStart(c) ==
  /\ calls[c].pc = "idle"
  /\ \E req \in reqs :
       /\ req.op = "planTrip"
       /\ calls' = [calls EXCEPT ![c] =
            [IdleCall EXCEPT !.pc = "tripCache", !.req = req,
                             !.cacheKey = requestKey(req)]]
  /\ UNCHANGED <<store, reqs, pureArgs, pureResult, handler>>

\* the cache lookup (without credentials): a hit returns, a miss fetches
tripCheckCache(c) ==
  LET call == calls[c] IN
  /\ call.pc = "tripCache"
  /\ \E requestFails \in BOOLEAN :
       LET row == selectSingle(store, call.cacheKey, requestFails)
           cached == getFromCache(row, FALSE)
       IN calls' = [calls EXCEPT ![c] =
            IF Truthy(cached)
            THEN [call EXCEPT !.pc = "done", !.row = row, !.cached = cached,
                    !.response = Resolved(
                       [trip |-> filterTripByServices(cached.data, call.req.userSelectedServices),
                        groundingChunks |-> cached.groundingChunks])]
            ELSE [call EXCEPT !.pc = "tripFetching", !.row = row, !.cached = cached]]
  /\ UNCHANGED <<store, reqs, pureArgs, pureResult, handler>>

\* the answer of /api/trip: an error, or the master trip to save and filter
tripFetch(c) ==
  LET call == calls[c] IN
  /\ call.pc = "tripFetching"
  /\ \E response \in TripResponses :
       calls' = [calls EXCEPT ![c] =
         IF ~response.ok
         THEN [call EXCEPT !.pc = "done",
                 !.response = Rejected("Trip planning request failed")]
         ELSE LET master == [call EXCEPT !.masterData = response.data,
                                         !.masterGrounding = Arr(<<>>)]
              IN IF Truthy(response.data) /\ LengthPositive(response.data.locations)
                 THEN [master EXCEPT !.pc = "tripSaving"]
                 ELSE [master EXCEPT !.pc = "done",
                         !.response = Resolved(
                            [trip |-> filterTripByServices(response.data, call.req.userSelectedServices),
                             groundingChunks |-> Arr(<<>>)])]]
  /\ UNCHANGED <<store, reqs, pureArgs, pureResult, handler>>

tripSave(c) ==
  LET call == calls[c] IN
  /\ call.pc = "tripSaving"
  /\ \E requestFails \in BOOLEAN :
       store' = saveToCache(store, call.cacheKey, call.masterData,
                            call.masterGrounding, requestFails)
  /\ calls' = [calls EXCEPT ![c] =
       [call EXCEPT !.pc = "done",
          !.response = Resolved(
             [trip |-> filterTripByServices(call.masterData, call.req.userSelectedServices),
              groundingChunks |-> call.masterGrounding])]]
  /\ UNCHANGED <<reqs, pureArgs, pureResult, handler>>

\* ---------------------------------------------------------- specifications
Next ==
  \E c \in DOMAIN calls :
    \/ searchStart(c)
    \/ searchResolve(c)
    \/ searchCacheBackup(c)
    \/ searchSave(c)
    \/ tripStart(c)
    \/ tripCheckCache(c)
    \/ tripFetch(c)
    \/ tripSave(c)
    \/ callReturn(c)

Spec == Init /\ [][Next]_vars

\* ------------------------------------------- properties of searchFrequencies
IsSearch(call) == call.req.op = "searchFrequencies"
IsTrip(call) == call.req.op = "planTrip"
RowWasRead(call) == call.row # NoRow
KeyInTable(table, key) == \E r \in table : r.search_key = key

\* C1: a search for which the AI path or the RadioReference path yielded a
\* result returns a response and never rejects; a search rejects only when
\* both paths yielded nothing and the cache backup found no usable entry.
C1_OnlyTotalFailureIsSurfaced ==
  \A c \in DOMAIN calls :
    LET call == calls[c] IN
    (IsSearch(call) /\ call.pc = "done") =>
      /\ (Truthy(call.aiResult) \/ Truthy(call.rrResult)) => call.response.kind = "resolved"
      /\ call.response.kind = "rejected" =>
           ~Truthy(call.aiResult) /\ ~Truthy(call.rrResult) /\ ~Truthy(call.cached)

\* some trunked system of the record, or of a location of the trip, has no
\* frequencies field
SystemLacksFrequencies(list) ==
  list.t = "array" /\ \E i \in 1..Len(list.v) : list.v[i].frequencies = Undefined
LacksFrequencies(data) ==
  /\ data.t = Obj
  /\ \/ SystemLacksFrequencies(data.trunkedSystems)
     \/ /\ data.locations.t = "array"
        /\ \E i \in 1..Len(data.locations.v) :
             /\ data.locations.v[i].data.t = Obj
             /\ SystemLacksFrequencies(data.locations.v[i].data.trunkedSystems)

\* the record has the arrays the data model requires
HasDataModelShape(data) ==
  /\ data.agencies.t = "array"
  /\ data.trunkedSystems.t = "array"
  /\ \A i \in 1..Len(data.agencies.v) : data.agencies.v[i].frequencies.t = "array"
  /\ \A i \in 1..Len(data.trunkedSystems.v) :
       /\ data.trunkedSystems.v[i].frequencies.t = "array"
       /\ data.trunkedSystems.v[i].talkgroups.t = "array"

\* C2: when both paths failed and the table holds an entry of current shape
\* under the key, the search returns that entry's data, filtered by the
\* requested categories, whatever its provenance and with or without
\* credentials.
C2_BackupServesAnyCurrentEntry ==
  \A c \in DOMAIN calls :
    LET call == calls[c] IN
    ( /\ IsSearch(call) /\ call.pc = "done"
      /\ ~Truthy(call.aiResult) /\ ~Truthy(call.rrResult)
      /\ RowWasRead(call)
      /\ ~LacksFrequencies(call.row.result_data)
      /\ HasDataModelShape(call.row.result_data) )
    => /\ call.response.kind = "resolved"
       /\ call.response.value.data.agencies =
            filterDataByServices(call.row.result_data, call.req.userSelectedServices).agencies

IsLocationKey(key) == Len(key) >= 7 /\ SubSeq(key, 1, 7) = <<"v","6","_","l","o","c","_">>
EmptyMaster(call) ==
  IsSearch(call) /\ Truthy(call.masterData)
    /\ ~LengthPositive(call.masterData.agencies)
    /\ ~LengthPositive(call.masterData.trunkedSystems)
C3_NoEmptyRow ==
  \A r \in store :
    IsLocationKey(r.search_key) =>
      \/ r.result_data.agencies.t = "array" /\ Len(r.result_data.agencies.v) > 0
      \/ r.result_data.trunkedSystems.t = "array" /\ Len(r.result_data.trunkedSystems.v) > 0
C3_EmptyMasterStepKeepsTable ==
  \A c \in DOMAIN calls :
    (EmptyMaster(calls[c]) \/ EmptyMaster(calls'[c])) =>
      /\ store' = store
      /\ ~KeyInTable(store, calls'[c].cacheKey) => ~KeyInTable(store', calls'[c].cacheKey)
\* C3: no row stored under a location key holds a record with zero agencies
\* and zero trunked systems, and the steps of a search whose master record is
\* empty leave the table as it was, so that a key that missed still misses.
C3_CacheNeverStoresEmpty == [](C3_NoEmptyRow) /\ [][C3_EmptyMasterStepKeepsTable]_vars
C3_Witness ==
  \E c \in DOMAIN calls :
    /\ EmptyMaster(calls[c]) /\ calls[c].pc = "done"
    /\ calls[c].response.kind = "resolved"
    /\ ~KeyInTable(store, calls[c].cacheKey)

\* C4: an entry in which a trunked system, at top level or in a location of
\* a trip, has no frequencies field is a miss of getFromCache, hence nothing
\* getFromCache serves has such a system, and a planTrip that read such an
\* entry goes on to the fetch of the master trip.
C4_StaleEntryIsAMiss ==
  \A c \in DOMAIN calls :
    LET call == calls[c] IN
    /\ Truthy(call.cached) => ~LacksFrequencies(call.cached.data)
    /\ (RowWasRead(call) /\ LacksFrequencies(call.row.result_data)) =>
         /\ call.cached = Null
         /\ IsTrip(call) =>
              /\ call.pc \in {"tripFetching", "tripSaving", "done"}
              /\ call.pc = "done" =>
                   (call.response.kind = "rejected" \/ call.masterData # Undefined)
         /\ IsSearch(call) => call.response.kind = "rejected"
C4_Witness ==
  \E c \in DOMAIN calls :
    /\ IsTrip(calls[c]) /\ calls[c].pc = "tripFetching"
    /\ RowWasRead(calls[c]) /\ LacksFrequencies(calls[c].row.result_data)

StoredAsAI(call) == RowWasRead(call) /\ call.row.result_data.source = Str(<<"A","I">>)
SameEntry(served, stored) ==
  /\ served.agencies = stored.agencies
  /\ served.trunkedSystems.t = stored.trunkedSystems.t
  /\ served.trunkedSystems.t = "array" =>
       /\ Len(served.trunkedSystems.v) = Len(stored.trunkedSystems.v)
       /\ \A i \in 1..Len(stored.trunkedSystems.v) :
            /\ served.trunkedSystems.v[i].name = stored.trunkedSystems.v[i].name
            /\ served.trunkedSystems.v[i].talkgroups = stored.trunkedSystems.v[i].talkgroups
C5_AIEntryRule ==
  \A c \in DOMAIN calls :
    LET call == calls[c] IN
    StoredAsAI(call) =>
      /\ call.req.rrCredentials => call.cached = Null
      /\ (~call.req.rrCredentials /\ ~LacksFrequencies(call.row.result_data)) =>
           /\ Truthy(call.cached)
           /\ SameEntry(call.cached.data, call.row.result_data)
      /\ call.row \in store
C5_LookupKeepsTable ==
  \A c \in DOMAIN calls :
    (calls[c].pc \in {"cacheBackup", "tripCache"} /\ calls'[c].pc # calls[c].pc) =>
      store' = store
C6_ServedRecordsAreRepaired ==
  \A c \in DOMAIN calls :
    LET call == calls[c] IN
    Truthy(call.cached) =>
      IF call.cached.data.locations.t = "array"
      THEN \A i \in 1..Len(call.cached.data.locations.v) :
             LET loc == call.cached.data.locations.v[i] IN
             loc.data.t = Obj => HasDataModelShape(loc.data)
      ELSE HasDataModelShape(call.cached.data)

\* ------------------------------------- concurrent searches for one location
\* NumCalls callers ask for the same ZIP code, without credentials
InitRace ==
  /\ reqs = { SearchRequest(<<"8","4","7","7","0">>, s, FALSE) : s \in ServiceChoices }
  /\ store = {BYSTANDER}
  /\ calls = [c \in 1..NumCalls |-> IdleCall]
  /\ pureArgs = NoPure
  /\ pureResult = NoPure
  /\ handler = IdleHandler

NextRace ==
  \E c \in DOMAIN calls :
    \/ searchStart(c)
    \/ searchResolve(c)
    \/ searchCacheBackup(c)
    \/ searchSave(c)
    \/ callReturn(c)

SpecRace == InitRace /\ [][NextRace]_vars

\* ------------------------------------------------ mergeResults on its own
MergeNames == { <<"P","d">>, <<"P",".","D",".">>, <<"P","d"," ","2">>, <<"F","i","r","e">> }
SystemNames == { <<"N","e","t">>, <<"N","E","T","-">> }
\* the sequences of length at most n over the set
SeqsUpTo(S, n) == UNION { [1..k -> S] : k \in 0..n }

RRMergeAgencies ==
  { Agency(Str(n), Str(<<"P","o","l","i","c","e">>), Arr(<<FREQ>>), Str(<<"R","R">>)) : n \in MergeNames }
AIMergeAgencies ==
  { Agency(n, Str(<<"L","a","w">>), Arr(<<>>), Str(<<"A","I">>)) :
      n \in {Str(m) : m \in MergeNames} \cup {Undefined} }
RRMergeSystems ==
  { TrunkedSystem(Str(n), Arr(<<FREQ>>), Arr(<<TG_LAW>>), Str(<<"R","R">>)) : n \in SystemNames }
AIMergeSystems ==
  { TrunkedSystem(Str(n), Arr(<<>>), Arr(<<TG_FIRE>>), Str(<<"A","I">>)) : n \in SystemNames }

RRMergeInputs ==
  { ScanResult(Str(<<"A","P","I">>), Str(<<"r","r">>), Arr(ags), Arr(sys)) :
      ags \in SeqsUpTo(RRMergeAgencies, MaxRR), sys \in SeqsUpTo(RRMergeSystems, 1) }
AIMergeInputs ==
  { ScanResult(Str(<<"A","I">>), Str(<<"a","i">>), ags, sys) :
      ags \in {Undefined} \cup {Arr(s) : s \in SeqsUpTo(AIMergeAgencies, MaxAI)},
      sys \in {Undefined} \cup {Arr(s) : s \in SeqsUpTo(AIMergeSystems, 1)} }

InitMerge ==
  /\ pureArgs \in [fn : {"mergeResults"}, rr : RRMergeInputs, ai : AIMergeInputs]
  /\ pureResult = NoPure
  /\ handler = IdleHandler
  /\ store = {}
  /\ calls = << >>
  /\ reqs = {}

applyMergeResults ==
  /\ pureArgs.fn = "mergeResults"
  /\ pureResult = NoPure
  /\ pureResult' = [fn |-> "mergeResults", out |-> mergeResults(pureArgs.rr, pureArgs.ai)]
  /\ UNCHANGED <<store, calls, reqs, pureArgs, handler>>

SpecMerge == InitMerge /\ [][applyMergeResults]_vars

\* ------------------------------------------------- the cache keys on their own
LabelChars == {"S", "s", " ", "_"}
Labels == SeqsUpTo(LabelChars, MaxLabelLen)

\* two searches, or a search and two trips over the same pair of labels
InitKeys ==
  /\ pureArgs \in
       [fn : {"searchKeys"}, first : {SearchRequest(l, << <<"P","o","l","i","c","e">> >>, FALSE) : l \in Labels},
        second : {SearchRequest(l, s, c) : l \in Labels, s \in ServiceChoices, c \in BOOLEAN}]
       \cup
       [fn : {"tripKeys"}, first : {SearchRequest(l, << <<"P","o","l","i","c","e">> >>, FALSE) : l \in Labels},
        second : {TripRequest(a, b, << <<"P","o","l","i","c","e">> >>) : a \in Labels, b \in {<<>>, <<"S">>, <<"s","_">>}},
        services : ServiceChoices]
  /\ pureResult = NoPure
  /\ handler = IdleHandler
  /\ store = {}
  /\ calls = << >>
  /\ reqs = {}

\* the keys the two searches compute
applySearchKeys ==
  /\ pureArgs.fn = "searchKeys"
  /\ pureResult = NoPure
  /\ pureResult' = [fn |-> "searchKeys",
                    first |-> requestKey(pureArgs.first),
                    second |-> requestKey(pureArgs.second)]
  /\ UNCHANGED <<store, calls, reqs, pureArgs, handler>>

\* the keys a search and two trips (same labels, other services) compute
applyTripKeys ==
  /\ pureArgs.fn = "tripKeys"
  /\ pureResult = NoPure
  /\ pureResult' = [fn |-> "tripKeys",
                    first |-> requestKey(pureArgs.first),
                    second |-> requestKey(pureArgs.second),
                    third |-> tripCacheKey(pureArgs.second.start, pureArgs.second.end,
                                           pureArgs.services)]
  /\ UNCHANGED <<store, calls, reqs, pureArgs, handler>>

NextKeys == applySearchKeys \/ applyTripKeys
SpecKeys == InitKeys /\ [][NextKeys]_vars


\* --------------------------------------------------- the filter on its own
\* the category values inferCategory returns by name
InferredCategories ==
  { <<"P","o","l","i","c","e">>, <<"F","i","r","e">>, <<"E","M","S">>, <<"F","e","d","e","r","a","l">>, <<"M","i","l","i","t","a","r","y">>, <<"A","i","r">>, <<"M","a","r","i","n","e">>,
    <<"R","a","i","l","r","o","a","d">>, <<"H","a","m"," ","R","a","d","i","o">>, <<"P","u","b","l","i","c"," ","W","o","r","k","s">>, <<"U","t","i","l","i","t","i","e","s">>, <<"T","r","a","n","s","p","o","r","t","a","t","i","o","n">>,
    <<"H","o","s","p","i","t","a","l","s">>, <<"S","c","h","o","o","l","s">>, <<"C","o","r","r","e","c","t","i","o","n","s">>, <<"S","e","c","u","r","i","t","y">>, <<"B","u","s","i","n","e","s","s">> }

MaxFilterAgencies == 2
\* records to filter: one agency of each inferred category or of category
\* 'Other' (what inferCategory returns for a nameless group), or a short list
\* over three agencies; no system, one system, or two systems of which one
\* is of an older shape
FilterRecords ==
  LET unit(category) == Agency(Str(<<"U","n","i","t">>), category, Arr(<<FREQ>>), Str(<<"R","R">>))
      agencyLists ==
        { << unit(Str(cat)) >> : cat \in InferredCategories \cup { <<"O","t","h","e","r">> } }
          \cup SeqsUpTo({ unit(Str(<<"P","o","l","i","c","e">>)), unit(Str(<<"B","u","s","i","n","e","s","s">>)), unit(Undefined) },
                        MaxFilterAgencies)
      tgEms == Talkgroup(<<"3","0","3">>, Str(<<"E","M","S"," ","D","i","s","p","a","t","c","h">>), Undefined)
      systemLists ==
        { <<>>,
          << TrunkedSystem(Str(<<"S","t","a","t","e"," ","N","e","t">>), Arr(<<FREQ>>),
                           Arr(<<TG_LAW, TG_FIRE, tgEms>>), Str(<<"R","R">>)) >>,
          << TrunkedSystem(Str(<<"O","l","d"," ","N","e","t">>), Null, Undefined, Undefined),
             TrunkedSystem(Str(<<"C","i","t","y"," ","N","e","t">>), Arr(<<>>), Arr(<<TG_FIRE, TG_LAW>>), Str(<<"A","I">>)) >> }
  IN { ScanResult(Str(<<"A","P","I">>), Str(<<"r","r">>), ags, sys) :
         ags \in {Undefined} \cup {Arr(l) : l \in agencyLists},
         sys \in {Undefined} \cup {Arr(l) : l \in systemLists} }

\* the arguments of one call: a record or a trip, and one service type, the
\* default pair, none, or all of them
InitFilter ==
  LET trips ==
        { TripResult(Undefined) }
          \cup { TripResult(Arr(<< TripLocation(<<"E","l","y">>, d), TripLocation(<<"8","4","7","7","0">>, Null) >>)) :
                   d \in FilterRecords }
      services ==
        { << ALL_SERVICE_TYPES[i] >> : i \in 1..Len(ALL_SERVICE_TYPES) }
          \cup { << <<"F","i","r","e">>, <<"E","M","S">> >>, <<>>, ALL_SERVICE_TYPES }
  IN
  /\ pureArgs \in
       [fn : {"filterData"}, data : FilterRecords \cup {Null}, services : services]
       \cup [fn : {"filterTrip"}, data : trips, services : services]
  /\ pureResult = NoPure
  /\ handler = IdleHandler
  /\ store = {}
  /\ calls = << >>
  /\ reqs = {}

\* filterDataByServices(data, services), and the filter applied to its result
applyFilterData ==
  /\ pureArgs.fn = "filterData"
  /\ pureResult = NoPure
  /\ LET call == filterDataCall(pureArgs.data, pureArgs.services) IN
     pureResult' = [fn |-> "filterData", arg |-> call.arg, out |-> call.result,
                    again |-> filterDataCall(call.result, pureArgs.services).result]
  /\ UNCHANGED <<store, calls, reqs, pureArgs, handler>>

\* filterTripByServices(trip, services), and the filter applied to its result
applyFilterTrip ==
  /\ pureArgs.fn = "filterTrip"
  /\ pureResult = NoPure
  /\ LET call == filterTripCall(pureArgs.data, pureArgs.services) IN
     pureResult' = [fn |-> "filterTrip", arg |-> call.arg, out |-> call.result,
                    again |-> filterTripCall(call.result, pureArgs.services).result]
  /\ UNCHANGED <<store, calls, reqs, pureArgs, handler>>

NextFilter == applyFilterData \/ applyFilterTrip
SpecFilter == InitFilter /\ [][NextFilter]_vars


\* ------------------------------------- RadioReference handler: the steps
errorAnswer(status, text) == [status |-> status, error |-> text, data |-> Null]

\* the catch block of the handler
rpcErrorAnswer(msg) ==
  IF includes(msg, <<"4","0","1">>) \/ includes(msg, <<"a","u","t","h","e","n","t","i","c","a","t","i","o","n">>) \/ includes(msg, <<"I","n","v","a","l","i","d">>)
  THEN errorAnswer(401, <<"R","a","d","i","o","R","e","f","e","r","e","n","c","e"," ","a","u","t","h","e","n","t","i","c","a","t","i","o","n"," ","f","a","i","l","e","d","."," ","C","h","e","c","k"," ","y","o","u","r"," ","u","s","e","r","n","a","m","e"," ","a","n","d"," ","p","a","s","s","w","o","r","d",".">>)
  ELSE errorAnswer(500, <<"R","a","d","i","o","R","e","f","e","r","e","n","c","e"," ","A","P","I"," ","r","e","q","u","e","s","t"," ","f","a","i","l","e","d","."," ">> \o msg)

\* what soapCall throws
TransportErrors == { <<"R","a","d","i","o","R","e","f","e","r","e","n","c","e"," ","A","P","I"," ","r","e","t","u","r","n","e","d"," ","4","0","1">>, <<"R","a","d","i","o","R","e","f","e","r","e","n","c","e"," ","A","P","I"," ","r","e","t","u","r","n","e","d"," ","5","0","3">> }

\* variant: the first candidate with a county id wins, whatever its state
resolveZip_firstUsable(zip, answer) ==
  LET usable(c) == c # <<>> /\ c # <<"0">>
      zipItems == IF answer.items = <<>> /\ usable(answer.root.ctid)
                  THEN << answer.root >> ELSE answer.items
      expectedStid == inferStateIdFromZip(zip)
      hits == { n \in 1..Len(zipItems) : usable(zipItems[n].ctid) }
  IN IF hits = {} THEN Null
     ELSE LET item == zipItems[CHOOSE n \in hits : \A m \in hits : n <= m]
          IN [t |-> Obj, ctid |-> item.ctid,
              stid |-> IF Truthy(expectedStid) THEN expectedStid.v ELSE item.stid,
              city |-> item.city]

\* variant: the fallback keeps the state the provider gave
resolveZip_keepProviderState(zip, answer) ==
  LET usable(c) == c # <<>> /\ c # <<"0">>
      zipItems == IF answer.items = <<>> /\ usable(answer.root.ctid)
                  THEN << answer.root >> ELSE answer.items
      expectedStid == inferStateIdFromZip(zip)
      hits == { n \in 1..Len(zipItems) :
                  usable(zipItems[n].ctid)
                    /\ (Truthy(expectedStid) => Str(zipItems[n].stid) = expectedStid) }
  IN IF hits # {}
     THEN LET item == zipItems[CHOOSE n \in hits : \A m \in hits : n <= m]
          IN [t |-> Obj, ctid |-> item.ctid, stid |-> item.stid, city |-> item.city]
     ELSE IF zipItems # <<>> /\ usable(zipItems[1].ctid)
     THEN [t |-> Obj, ctid |-> zipItems[1].ctid, stid |-> zipItems[1].stid,
           city |-> zipItems[1].city]
     ELSE Null

\* step 1 after the answer: zipItems, the bestMatch loop and the fallback
resolveZip(zip, answer) ==
  LET usable(c) == c # <<>> /\ c # <<"0">>
      zipItems == IF answer.items = <<>> /\ usable(answer.root.ctid)
                  THEN << answer.root >> ELSE answer.items
      expectedStid == inferStateIdFromZip(zip)
      match(item, stid) == [t |-> Obj, ctid |-> item.ctid, stid |-> stid, city |-> item.city]
      RECURSIVE loop(_)
      loop(n) ==
        IF n > Len(zipItems) THEN Null
        ELSE IF ~usable(zipItems[n].ctid) THEN loop(n + 1)
        ELSE IF Truthy(expectedStid)
        THEN IF Str(zipItems[n].stid) = expectedStid
             THEN match(zipItems[n], zipItems[n].stid)
             ELSE loop(n + 1)
        ELSE match(zipItems[n], zipItems[n].stid)
      bestMatch == loop(1)
  IN IF ~Truthy(bestMatch) /\ Len(zipItems) > 0
     THEN IF usable(zipItems[1].ctid)
          THEN match(zipItems[1],
                     IF Truthy(expectedStid) THEN expectedStid.v ELSE zipItems[1].stid)
          ELSE Null
     ELSE bestMatch

\* variant: not found, whatever the answer says
noMatchAnswer_alwaysNotFound(answer) ==
  errorAnswer(404, <<"Z","I","P"," ","c","o","d","e"," ","n","o","t"," ","f","o","u","n","d"," ","i","n"," ","R","a","d","i","o","R","e","f","e","r","e","n","c","e"," ","d","a","t","a","b","a","s","e"," ","(","o","r"," ","s","t","a","t","e"," ","m","i","s","m","a","t","c","h",")",".">>)

\* the answer when there is no bestMatch
noMatchAnswer(answer) ==
  IF answer.faultstring # <<>>
  THEN errorAnswer(401, <<"R","a","d","i","o","R","e","f","e","r","e","n","c","e",":"," ">> \o answer.faultstring)
  ELSE errorAnswer(404, <<"Z","I","P"," ","c","o","d","e"," ","n","o","t"," ","f","o","u","n","d"," ","i","n"," ","R","a","d","i","o","R","e","f","e","r","e","n","c","e"," ","d","a","t","a","b","a","s","e"," ","(","o","r"," ","s","t","a","t","e"," ","m","i","s","m","a","t","c","h",")",".">>)

\* variant: no cap
capSubcats_uncapped(countySubcatIds, stateSubcatIds) == countySubcatIds \o stateSubcatIds

\* [...countySubcatIds, ...stateSubcatIds].slice(0, 150)
capSubcats(countySubcatIds, stateSubcatIds) ==
  LET all == countySubcatIds \o stateSubcatIds
  IN SubSeq(all, 1, IF Len(all) < SubcatCap THEN Len(all) ELSE SubcatCap)

\* variant: one failed call empties its batch
batchAgencies_abortOnFailure(batch, failed, relevant) ==
  IF \E n \in 1..Len(batch) : <<"getSubcatFreqs", batch[n].scid>> \in failed THEN <<>>
  ELSE LET RECURSIVE push(_)
           push(n) ==
             IF n > Len(batch) THEN <<>>
             ELSE LET freqs == parseFrequencies(getSubcatFreqs(batch[n].scid), relevant)
                  IN (IF Len(freqs) > 0
                      THEN << Agency(Str(batch[n].name),
                                     Str(inferCategory(batch[n].catName, batch[n].name)),
                                     Arr(freqs), Undefined) >>
                      ELSE <<>>) \o push(n + 1)
       IN push(1)

\* the agencies a settled batch adds: the calls that failed gave null
batchAgencies(batch, failed, relevant) ==
  LET RECURSIVE push(_)
      push(n) ==
        IF n > Len(batch) THEN <<>>
        ELSE IF <<"getSubcatFreqs", batch[n].scid>> \in failed THEN push(n + 1)
        ELSE LET freqs == parseFrequencies(getSubcatFreqs(batch[n].scid), relevant)
             IN (IF Len(freqs) > 0
                 THEN << Agency(Str(batch[n].name),
                                Str(inferCategory(batch[n].catName, batch[n].name)),
                                Arr(freqs), Undefined) >>
                 ELSE <<>>) \o push(n + 1)
  IN push(1)

\* getStateName: the postal abbreviation of a state id, or the id itself
getStateName(stid) ==
  LET states ==
        << <<"A","L">>, <<"A","K">>, <<"A","Z">>, <<"A","R">>, <<"C","A">>, <<"C","O">>, <<"C","T">>, <<"D","E">>, <<"F","L">>, <<"G","A">>, <<"H","I">>,
           <<"I","D">>, <<"I","L">>, <<"I","N">>, <<"I","A">>, <<"K","S">>, <<"K","Y">>, <<"L","A">>, <<"M","E">>, <<"M","D">>, <<"M","A">>, <<"M","I">>,
           <<"M","N">>, <<"M","S">>, <<"M","O">>, <<"M","T">>, <<"N","E">>, <<"N","V">>, <<"N","H">>, <<"N","J">>, <<"N","M">>, <<"N","Y">>, <<"N","C">>,
           <<"N","D">>, <<"O","H">>, <<"O","K">>, <<"O","R">>, <<"P","A">>, <<"R","I">>, <<"S","C">>, <<"S","D">>, <<"T","N">>, <<"T","X">>, <<"U","T">>,
           <<"V","T">>, <<"V","A">>, <<"W","A">>, <<"W","V">>, <<"W","I">>, <<"W","Y">>, <<"D","C">> >>
  IN IF \E id \in 1..Len(states) : StateIdText(id) = stid
     THEN states[CHOOSE id \in 1..Len(states) : StateIdText(id) = stid]
     ELSE stid

\* variant: the system is added whatever it holds
systemOf_keepEmpty(trs, ctid, relevant, locationName) ==
  LET sysName == IF getTrsDetails(trs.sid).sName # <<>>
                 THEN getTrsDetails(trs.sid).sName ELSE trs.sName
      sites == parseSites(getTrsSites(trs.sid), ctid)
      talkgroups == parseTalkgroups(getTrsTalkgroups(trs.sid), relevant)
  IN << TrunkedSystem(Str(sysName),
                      IF Len(sites) > 0 THEN sites[1].frequencies ELSE Arr(<<>>),
                      Arr(talkgroups), Undefined)
          @@ [location |-> Str(IF Len(sites) > 0 THEN sites[1].siteDescr
                               ELSE locationName)] >>

\* the system a fetched trunked system adds, if any
systemOf(trs, ctid, relevant, locationName) ==
  LET sysName == IF getTrsDetails(trs.sid).sName # <<>>
                 THEN getTrsDetails(trs.sid).sName ELSE trs.sName
      sites == parseSites(getTrsSites(trs.sid), ctid)
      talkgroups == parseTalkgroups(getTrsTalkgroups(trs.sid), relevant)
  IN IF Len(sites) > 0 \/ Len(talkgroups) > 0
     THEN << TrunkedSystem(Str(sysName),
                           IF Len(sites) > 0 THEN sites[1].frequencies ELSE Arr(<<>>),
                           Arr(talkgroups), Undefined)
               @@ [location |-> Str(IF Len(sites) > 0 THEN sites[1].siteDescr
                                    ELSE locationName)] >>
     ELSE <<>>

\* the calls that may fail in transit
Fallible ==
  { <<"getSubcatFreqs", 2>>, <<"getSubcatFreqs", 12>>, <<"getSubcatFreqs", 501>>,
    <<"getTrsDetails", 2>>, <<"getTrsSites", 2>>, <<"getTrsTalkgroups", 2>> }
trsCalls(sid) == { <<"getTrsDetails", sid>>, <<"getTrsSites", sid>>, <<"getTrsTalkgroups", sid>> }

\* the requests that arrive
RRRequests ==
  LET services == { Undefined, Arr(<< <<"P","o","l","i","c","e">> >>), Arr(ALL_SERVICE_TYPES) }
  IN [method : {"POST"}, appKey : {TRUE}, zipcode : { <<"8","4","7","7","0">>, <<"U","T"," ","0","0","6","0","1">> },
      credentials : {TRUE}, serviceTypes : services]
       \cup [method : {"GET", "POST"}, appKey : BOOLEAN,
             zipcode : { <<>>, <<"8","4","7","7">>, <<"8","4","7","7","0","-","1","2","3","4">>, <<"8","4","7","7","0">> },
             credentials : BOOLEAN, serviceTypes : {Undefined}]

InitRR ==
  /\ store = {}
  /\ calls = <<>>
  /\ reqs = <<>>
  /\ pureArgs = NoPure
  /\ pureResult = NoPure
  /\ handler \in { [IdleHandler EXCEPT !.pc = "request", !.req = r] : r \in RRRequests }

\* the handler up to the first call
handleRequest ==
  /\ handler.pc = "request"
  /\ LET req == handler.req
         zip == SelectSeq(req.zipcode, LAMBDA ch : ch \in Digits)
         safeServices == IF req.serviceTypes.t = "array"
                         THEN SubSeq(req.serviceTypes.v, 1,
                                     IF Len(req.serviceTypes.v) < 20
                                     THEN Len(req.serviceTypes.v) ELSE 20)
                         ELSE << <<"P","o","l","i","c","e">>, <<"F","i","r","e">>, <<"E","M","S">> >>
         answer(r) == handler' = [handler EXCEPT !.pc = "done", !.req = Null, !.response = r]
     IN IF req.method # "POST" THEN answer(errorAnswer(405, <<"M","e","t","h","o","d"," ","n","o","t"," ","a","l","l","o","w","e","d">>))
        ELSE IF ~req.appKey
        THEN answer(errorAnswer(500, <<"R","a","d","i","o","R","e","f","e","r","e","n","c","e"," ","A","P","I"," ","n","o","t"," ","c","o","n","f","i","g","u","r","e","d"," ","o","n"," ","s","e","r","v","e","r">>))
        ELSE IF req.zipcode = <<>> \/ ~req.credentials
        THEN answer(errorAnswer(400, <<"M","i","s","s","i","n","g"," ","r","e","q","u","i","r","e","d"," ","f","i","e","l","d","s",":"," ","z","i","p","c","o","d","e",","," ","r","r","U","s","e","r","n","a","m","e",","," ","r","r","P","a","s","s","w","o","r","d">>))
        ELSE IF Len(zip) # 5
        THEN answer(errorAnswer(400, <<"I","n","v","a","l","i","d"," ","Z","I","P"," ","c","o","d","e","."," ","M","u","s","t"," ","b","e"," ","5"," ","d","i","g","i","t","s",".">>))
        ELSE handler' = [handler EXCEPT !.pc = "zipWait", !.req = Null, !.zip = zip,
                                        !.safeServices = safeServices,
                                        !.relevant = relevantTagIds(safeServices),
                                        !.rpc = << <<"getZipcodeInfo", zip>> >>]
  /\ UNCHANGED <<store, calls, reqs, pureArgs, pureResult>>

\* getZipcodeInfo answers: step 1
zipAnswered ==
  /\ handler.pc = "zipWait"
  /\ \E answer \in ZipAnswers :
       LET bestMatch == resolveZip(handler.zip, answer) IN
       handler' = IF ~Truthy(bestMatch)
                  THEN [handler EXCEPT !.pc = "done", !.zipAnswer = answer,
                                       !.response = noMatchAnswer(answer)]
                  ELSE [handler EXCEPT !.pc = "resolved", !.zipAnswer = answer,
                                       !.bestMatch = bestMatch]
  /\ UNCHANGED <<store, calls, reqs, pureArgs, pureResult>>

\* step 2 is issued: getCountyInfo and getStateInfo together
callCatalog ==
  /\ handler.pc = "resolved"
  /\ handler' = [handler EXCEPT
       !.pc = "catalogWait", !.zipAnswer = Null,
       !.rpc = @ \o << <<"getCountyInfo", handler.bestMatch.ctid>>,
                       <<"getStateInfo", handler.bestMatch.stid>> >>]
  /\ UNCHANGED <<store, calls, reqs, pureArgs, pureResult>>

\* a call outside the per-unit try blocks throws
rpcFailed ==
  /\ handler.pc \in {"zipWait", "catalogWait"}
  /\ \E msg \in TransportErrors :
       handler' = [handler EXCEPT !.pc = "done", !.response = rpcErrorAnswer(msg)]
  /\ UNCHANGED <<store, calls, reqs, pureArgs, pureResult>>

\* both answers of step 2 are in: the lists of step 3 and step 4
catalogAnswered ==
  /\ handler.pc = "catalogWait"
  /\ LET countyXml == getCountyInfo(handler.bestMatch.ctid)
         stateXml == getStateInfo(handler.bestMatch.stid)
         prioritized == capSubcats(parseSubcategories(countyXml), parseSubcategories(stateXml))
         trsListRaw == parseTrsList(countyXml)
         countyName == countyXml.countyName
         locationName == (IF countyName # <<>> THEN countyName ELSE handler.bestMatch.city)
                           \o <<","," ">> \o getStateName(handler.bestMatch.stid)
         trsToFetch == SubSeq(trsListRaw, 1,
                              IF Len(trsListRaw) < TrsCap THEN Len(trsListRaw) ELSE TrsCap)
     IN handler' = [handler EXCEPT
          !.pc = IF Len(prioritized) > 0 THEN "batch"
                 ELSE IF Len(trsToFetch) > 0 THEN "trs" ELSE "respond",
          !.prioritizedSubcats = prioritized, !.i = 0,
          !.trsToFetch = trsToFetch, !.k = 1,
          !.locationName = locationName]
  /\ UNCHANGED <<store, calls, reqs, pureArgs, pureResult>>

\* the calls of one batch are issued
startBatch ==
  /\ handler.pc = "batch"
  /\ LET last == IF handler.i + batchSize < Len(handler.prioritizedSubcats)
                 THEN handler.i + batchSize ELSE Len(handler.prioritizedSubcats)
         batch == SubSeq(handler.prioritizedSubcats, handler.i + 1, last)
     IN handler' = [handler EXCEPT
          !.pc = "batchWait",
          !.inflight = @ \cup { <<"getSubcatFreqs", batch[n].scid>> : n \in 1..Len(batch) },
          !.rpc = @ \o [n \in 1..Len(batch) |-> <<"getSubcatFreqs", batch[n].scid>>]]
  /\ UNCHANGED <<store, calls, reqs, pureArgs, pureResult>>

\* every call of the batch has settled, some of them by failing
finishBatch ==
  /\ handler.pc = "batchWait"
  /\ LET last == IF handler.i + batchSize < Len(handler.prioritizedSubcats)
                 THEN handler.i + batchSize ELSE Len(handler.prioritizedSubcats)
         batch == SubSeq(handler.prioritizedSubcats, handler.i + 1, last)
         issued == { <<"getSubcatFreqs", batch[n].scid>> : n \in 1..Len(batch) }
     IN \E failed \in SUBSET (issued \cap Fallible) :
          handler' = [handler EXCEPT
            !.pc = IF handler.i + batchSize < Len(handler.prioritizedSubcats) THEN "batch"
                   ELSE IF Len(handler.trsToFetch) > 0 THEN "trs" ELSE "respond",
            !.i = @ + batchSize,
            !.inflight = @ \ issued,
            !.failed = @ \cup failed,
            !.agencies = @ \o batchAgencies(batch, failed, handler.relevant)]
  /\ UNCHANGED <<store, calls, reqs, pureArgs, pureResult>>

\* the three calls of one trunked system are issued
startSystem ==
  /\ handler.pc = "trs"
  /\ LET trs == handler.trsToFetch[handler.k] IN
     handler' = [handler EXCEPT
       !.pc = "trsWait",
       !.inflight = @ \cup trsCalls(trs.sid),
       !.rpc = @ \o << <<"getTrsDetails", trs.sid>>, <<"getTrsSites", trs.sid>>,
                       <<"getTrsTalkgroups", trs.sid>> >>]
  /\ UNCHANGED <<store, calls, reqs, pureArgs, pureResult>>

\* Promise.all of the three calls settles: with all three answers, or with
\* the first failure while the other two calls may still be running
settleSystem ==
  /\ handler.pc = "trsWait"
  /\ LET trs == handler.trsToFetch[handler.k]
         after == IF handler.k < Len(handler.trsToFetch) THEN "trs" ELSE "respond"
     IN \/ handler' = [handler EXCEPT
             !.pc = after, !.k = @ + 1,
             !.inflight = @ \ trsCalls(trs.sid),
             !.trunkedSystems =
                @ \o systemOf(trs, handler.bestMatch.ctid, handler.relevant,
                           handler.locationName)]
        \/ \E call \in trsCalls(trs.sid) \cap Fallible :
             \E running \in SUBSET (trsCalls(trs.sid) \ {call}) :
               handler' = [handler EXCEPT
                 !.pc = after, !.k = @ + 1,
                 !.inflight = (@ \ trsCalls(trs.sid)) \cup running,
                 !.failed = @ \cup {call}]
  /\ UNCHANGED <<store, calls, reqs, pureArgs, pureResult>>

\* a call left running by a failed system settles
lateSettle ==
  /\ handler.pc \in {"trs", "trsWait", "respond", "done"}
  /\ \E call \in handler.inflight :
       /\ handler.pc = "trsWait" => call \notin trsCalls(handler.trsToFetch[handler.k].sid)
       /\ handler' = [handler EXCEPT !.inflight = @ \ {call}]
  /\ UNCHANGED <<store, calls, reqs, pureArgs, pureResult>>

\* the result is built and sent
respond ==
  /\ handler.pc = "respond"
  /\ handler' = [handler EXCEPT
       !.pc = "done",
       !.response = [status |-> 200, error |-> <<>>,
                     data |-> ScanResult(Str(<<"A","P","I">>), Str(<<"r","r">>), Arr(handler.agencies),
                                         Arr(handler.trunkedSystems))]]
  /\ UNCHANGED <<store, calls, reqs, pureArgs, pureResult>>

NextRR ==
  \/ handleRequest
  \/ zipAnswered
  \/ callCatalog
  \/ rpcFailed
  \/ catalogAnswered
  \/ startBatch
  \/ finishBatch
  \/ startSystem
  \/ settleSystem
  \/ lateSettle
  \/ respond

SpecRR == InitRR /\ [][NextRR]_vars

\* --------------------------------------------------- the extractor on its own
\* the documents: every sequence of at most MaxTokens of these pieces
MaxTokens == 5
ItemTokens == { <<"a">>, <<"<","i","t","e","m",">">>, <<"<","i","t","e","m"," ","t","=","\"","x","\"",">">>, <<"<","/","i","t","e","m",">">>, <<"<","i","t","e","m"," ","n","=","\"","1","\"","/",">">> }

InitItems ==
  /\ store = {}
  /\ calls = <<>>
  /\ reqs = <<>>
  /\ pureArgs \in [fn : {"getItems"},
                   tokens : UNION { [1..n -> ItemTokens] : n \in 0..MaxTokens }]
  /\ pureResult = NoPure
  /\ handler = IdleHandler

\* getItems on the document, and again on each item it returned
applyGetItems ==
  /\ pureArgs.fn = "getItems"
  /\ pureResult = NoPure
  /\ LET flat[n \in 0..Len(pureArgs.tokens)] ==
           IF n = 0 THEN <<>> ELSE flat[n - 1] \o pureArgs.tokens[n]
         out == getItems(flat[Len(pureArgs.tokens)])
     IN pureResult' = [fn |-> "getItems", out |-> out,
                       inner |-> [n \in 1..Len(out) |-> getItems(out[n])]]
  /\ UNCHANGED <<store, calls, reqs, pureArgs, handler>>

NextItems == applyGetItems

SpecItems == InitItems /\ [][NextItems]_vars

\* ------------------------------------------- the generated text to the merge
\* the texts the model may answer with: up to MaxPieces of these pieces
MaxPieces == 3
AITexts ==
  LET pieces == { <<"grave", "grave", "grave">> \o <<"j","s","o","n">> \o <<"\n">>, <<"\n", "grave", "grave", "grave">>, <<"{","\"","a","g","e","n","c","i","e","s","\"",":","[","]","}">>,
                  <<"H","e","r","e",":"," ">>, <<"{">>, <<"}">>, <<"n","u","l","l">> }
      flat(s) == LET f[n \in 0..Len(s)] == IF n = 0 THEN <<>> ELSE f[n - 1] \o s[n]
                 IN f[Len(s)]
  IN { flat(s) : s \in UNION { [1..n -> pieces] : n \in 0..MaxPieces } }

InitAI ==
  /\ store = {}
  /\ calls = <<>>
  /\ reqs = <<>>
  /\ pureArgs \in [fn : {"aiSearch"}, text : AITexts, rr : RRResponses]
  /\ pureResult = NoPure
  /\ handler = IdleHandler

\* /api/search answers and searchFrequencies takes the answer to the merge
applyAISearch ==
  /\ pureArgs.fn = "aiSearch"
  /\ pureResult = NoPure
  /\ LET response == aiHandler(pureArgs.text) IN
     pureResult' = [fn |-> "aiSearch", response |-> response,
                    aiResult |-> aiPath(response),
                    master |-> masterRecord(rrPath(pureArgs.rr), aiPath(response))]
  /\ UNCHANGED <<store, calls, reqs, pureArgs, handler>>

NextAI == applyAISearch

SpecAI == InitAI /\ [][NextAI]_vars
\* ------------------------------------------- the state inference on its own
\* inferStateIdFromZip called on a ZIP of every 3-digit prefix in turn, 000
\* to 999, with one of these last two digits; reached collects the state ids
\* the calls so far have returned
ZipTails == { <<"0","0">>, <<"7","0">>, <<"9","9">> }
ZipOfPrefix(prefix3, tail) ==
  << DigitChar(prefix3 \div 100), DigitChar((prefix3 \div 10) % 10), DigitChar(prefix3 % 10) >>
    \o tail

InitZip ==
  /\ store = {}
  /\ calls = <<>>
  /\ reqs = <<>>
  /\ pureArgs = [fn |-> "inferStateIdFromZip"]
  /\ pureResult = NoPure
  /\ handler = IdleHandler

\* inferStateIdFromZip(zip) for a ZIP of the next prefix
applyInferState ==
  /\ pureArgs.fn = "inferStateIdFromZip"
  /\ LET prefix3 == IF pureResult = NoPure THEN 0 ELSE pureResult.prefix3 + 1
         before == IF pureResult = NoPure THEN {} ELSE pureResult.reached
     IN /\ prefix3 \in 0..999
        /\ \E tail \in ZipTails :
             LET zip == ZipOfPrefix(prefix3, tail)
                 out == inferStateIdFromZip(zip)
             IN pureResult' = [fn |-> "inferStateIdFromZip", zip |-> zip,
                               prefix3 |-> prefix3, out |-> out,
                               reached |-> IF Truthy(out) THEN before \cup {out.v}
                                           ELSE before]
  /\ UNCHANGED <<store, calls, reqs, pureArgs, handler>>

NextZip == applyInferState

SpecZip == InitZip /\ [][NextZip]_vars
\* ------------------------------------------------ properties of mergeResults
MergeDone == pureResult.fn = "mergeResults"
\* lower-cased, characters other than a-z and 0-9 removed
Canon(name) == SelectSeq(toLowerCase(name.v), LAMBDA ch : ch \in LowerLetters \cup Digits)
CanonNames(list) == {Canon(list[i].name) : i \in 1..Len(list)}
AllNamed(list) == \A i \in 1..Len(list) : list[i].name.t = "string"
ListOf(x) == IF x.t = "array" THEN x.v ELSE <<>>
\* the positions of the ai entries whose name, normalized, is neither one of
\* rr nor the one of an earlier ai entry
NovelPositions(rrList, aiList) ==
  { i \in 1..Len(aiList) :
      /\ Canon(aiList[i].name) \notin CanonNames(rrList)
      /\ \A j \in 1..(i - 1) : Canon(aiList[j].name) # Canon(aiList[i].name) }
\* out is rrList followed by the novel entries of aiList, in order
IsBaseThenNovel(out, rrList, aiList) ==
  LET novel == NovelPositions(rrList, aiList) IN
  /\ Len(out) = Len(rrList) + Cardinality(novel)
  /\ \A i \in 1..Len(rrList) : out[i] = rrList[i]
  /\ \A i \in novel : out[Len(rrList) + Cardinality({j \in novel : j <= i})] = aiList[i]

\* C7: the agencies of mergeResults(rr, ai) are the agencies of rr, in order
\* and unchanged, followed by exactly the ai agencies whose normalized name is
\* neither that of an rr agency nor that of an ai agency appended earlier;
\* the same for trunked systems.
C7_MergeKeepsBaseAppendsNovel ==
  (MergeDone /\ ~pureResult.out.threw) =>
    LET rr == pureArgs.rr
        ai == pureArgs.ai
        out == pureResult.out.v
    IN /\ IsBaseThenNovel(out.agencies.v, rr.agencies.v, ListOf(ai.agencies))
       /\ IsBaseThenNovel(out.trunkedSystems.v, rr.trunkedSystems.v, ListOf(ai.trunkedSystems))
C7_Witness ==
  /\ MergeDone /\ ~pureResult.out.threw
  /\ Len(pureResult.out.v.agencies.v) > Len(pureArgs.rr.agencies.v)
  /\ Len(pureResult.out.v.agencies.v)
       < Len(pureArgs.rr.agencies.v) + Len(ListOf(pureArgs.ai.agencies))
  /\ Len(pureArgs.rr.agencies.v) > 0

NamesSubset(aiList, rrList) ==
  AllNamed(aiList) /\ AllNamed(rrList) /\ CanonNames(aiList) \subseteq CanonNames(rrList)
C8_Precondition ==
  /\ NamesSubset(ListOf(pureArgs.ai.agencies), pureArgs.rr.agencies.v)
  /\ NamesSubset(ListOf(pureArgs.ai.trunkedSystems), pureArgs.rr.trunkedSystems.v)
\* C8: when the normalized names of the ai agencies and systems are among the
\* normalized names of rr, the merge has exactly the agencies and systems of rr.
C8_MergeIdempotentOnNames ==
  (MergeDone /\ C8_Precondition) =>
    /\ ~pureResult.out.threw
    /\ pureResult.out.v.agencies = pureArgs.rr.agencies
    /\ pureResult.out.v.trunkedSystems = pureArgs.rr.trunkedSystems
C8_Witness ==
  /\ MergeDone /\ C8_Precondition
  /\ Len(ListOf(pureArgs.ai.agencies)) > 0
  /\ Len(ListOf(pureArgs.ai.trunkedSystems)) > 0
  /\ \A i \in 1..Len(pureArgs.ai.agencies.v) :
       \A j \in 1..Len(pureArgs.rr.agencies.v) :
         pureArgs.ai.agencies.v[i].name # pureArgs.rr.agencies.v[j].name

\* -------------------------------------------- properties of concurrent writes
RowsOf(table, key) == {r \in table : r.search_key = key}
C9_OneRowPerKey ==
  \A r1 \in store : \A r2 \in store : r1.search_key = r2.search_key => r1 = r2
C9_WriteIsWholeRecord ==
  IF \E c \in DOMAIN calls : calls[c].pc = "saving" /\ calls'[c].pc = "done"
  THEN \A c \in DOMAIN calls :
         (calls[c].pc = "saving" /\ calls'[c].pc = "done") =>
           LET written == Row(calls[c].cacheKey, calls[c].masterData, Null) IN
           /\ \/ store' = store
              \/ /\ RowsOf(store', calls[c].cacheKey) = {written}
                 /\ \A r \in store \cup store' :
                      r.search_key # calls[c].cacheKey => (r \in store <=> r \in store')
           /\ written \in store => store' = store
  ELSE store' = store
\* C9: whatever the interleaving of the searches for a location, the table
\* holds at most one row under its key; a step changes the table only by
\* replacing that row with the whole master record of the call that saves,
\* and saving the record the row already holds changes nothing.
C9_LastWriterWins == [](C9_OneRowPerKey) /\ [][C9_WriteIsWholeRecord]_vars
C9_Witness ==
  \E c1 \in DOMAIN calls : \E c2 \in DOMAIN calls :
    /\ c1 # c2
    /\ calls[c1].pc = "done" /\ calls[c2].pc = "saving"
    /\ calls[c1].cacheKey = calls[c2].cacheKey
    /\ calls[c1].masterData # calls[c2].masterData
    /\ RowsOf(store, calls[c1].cacheKey) = {Row(calls[c1].cacheKey, calls[c1].masterData, Null)}

SameSystems(out, data) ==
  /\ out.trunkedSystems.t = data.trunkedSystems.t
  /\ data.trunkedSystems.t = "array" =>
       /\ Len(out.trunkedSystems.v) = Len(data.trunkedSystems.v)
       /\ \A i \in 1..Len(data.trunkedSystems.v) :
            /\ out.trunkedSystems.v[i].name = data.trunkedSystems.v[i].name
            /\ out.trunkedSystems.v[i].frequencies = data.trunkedSystems.v[i].frequencies
\* every element of the list out is one of the list data, in the same order
RECURSIVE IsSubsequence(_, _)
IsSubsequence(out, data) ==
  IF out = <<>> THEN TRUE
  ELSE IF data = <<>> THEN FALSE
  ELSE IF Head(out) = Head(data) THEN IsSubsequence(Tail(out), Tail(data))
  ELSE IsSubsequence(out, Tail(data))
FilterPreserves(out, data) ==
  IF data.t # Obj THEN out = Null
  ELSE /\ SameSystems(out, data)
       /\ out.agencies.t = data.agencies.t
       /\ data.agencies.t = "array" => IsSubsequence(out.agencies.v, data.agencies.v)
       /\ data.trunkedSystems.t = "array" =>
            \A i \in 1..Len(data.trunkedSystems.v) :
              LET tgOut == out.trunkedSystems.v[i].talkgroups
                  tgIn == data.trunkedSystems.v[i].talkgroups
              IN /\ tgOut.t = tgIn.t
                 /\ tgIn.t = "array" => IsSubsequence(tgOut.v, tgIn.v)

\* C11: after a call of filterDataByServices or filterTripByServices the
\* record the caller passed is what it was, and the record returned has
\* exactly the trunked systems of the input (count, order, names, frequency
\* lists), per location for a trip; agencies and talkgroups are only removed.
C11_FilterKeepsInputAndSystems ==
  /\ pureResult.fn \in {"filterData", "filterTrip"} => pureResult.arg = pureArgs.data
  /\ pureResult.fn = "filterData" => FilterPreserves(pureResult.out, pureArgs.data)
  /\ (pureResult.fn = "filterTrip" /\ pureArgs.data.locations.t = "array") =>
       /\ Len(pureResult.out.locations.v) = Len(pureArgs.data.locations.v)
       /\ \A i \in 1..Len(pureArgs.data.locations.v) :
            FilterPreserves(pureResult.out.locations.v[i].data,
                            pureArgs.data.locations.v[i].data)
C11_Witness ==
  /\ pureResult.fn = "filterData"
  /\ pureArgs.data.t = Obj
  /\ LengthPositive(pureArgs.data.agencies)
  /\ pureResult.out.agencies = Arr(<<>>)
  /\ LengthPositive(pureArgs.data.trunkedSystems)
  /\ \E i \in 1..Len(pureArgs.data.trunkedSystems.v) :
       /\ LengthPositive(pureArgs.data.trunkedSystems.v[i].talkgroups)
       /\ pureResult.out.trunkedSystems.v[i].talkgroups = Arr(<<>>)

\* C12: filtering the result of a filter by the same services returns the
\* same result, for filterDataByServices and for filterTripByServices.
C12_FilterIsIdempotent ==
  pureResult.fn \in {"filterData", "filterTrip"} => pureResult.again = pureResult.out
C12_Witness ==
  /\ pureResult.fn = "filterTrip"
  /\ pureArgs.data.locations.t = "array"
  /\ pureResult.out # pureArgs.data
  /\ pureResult.again = pureResult.out
  /\ \E i \in 1..Len(pureResult.out.locations.v) :
       /\ pureResult.out.locations.v[i].data.t = Obj
       /\ LengthPositive(pureResult.out.locations.v[i].data.agencies)
       /\ LengthPositive(pureResult.out.locations.v[i].data.trunkedSystems)
       /\ \E j \in 1..Len(pureResult.out.locations.v[i].data.trunkedSystems.v) :
            LET tg == pureResult.out.locations.v[i].data.trunkedSystems.v[j].talkgroups
                tgIn == pureArgs.data.locations.v[i].data.trunkedSystems.v[j].talkgroups
            IN LengthPositive(tg) /\ Len(tg.v) < Len(tgIn.v)

\* C13: filtering by one service type removes every agency whose category is
\* another value of the categories inferCategory returns.
C13_OtherCategoriesAreRemoved ==
  ( /\ pureResult.fn = "filterData"
    /\ Len(pureArgs.services) = 1
    /\ pureArgs.data.t = Obj
    /\ pureArgs.data.agencies.t = "array" )
  => \A i \in 1..Len(pureArgs.data.agencies.v) :
       LET agency == pureArgs.data.agencies.v[i] IN
       ( /\ agency.category.t = "string"
         /\ agency.category.v \in InferredCategories
         /\ agency.category.v # pureArgs.services[1] )
       => \A j \in 1..Len(pureResult.out.agencies.v) :
            pureResult.out.agencies.v[j] # agency

\* ------------------------------------- properties of the RadioReference handler
\* the candidates step 1 reads off the answer it holds, and the ones among
\* them that have a county id and the expected state
Candidates ==
  IF handler.zipAnswer.items = <<>> THEN << handler.zipAnswer.root >>
  ELSE handler.zipAnswer.items
UsableCandidates == { n \in 1..Len(Candidates) : Candidates[n].ctid \notin { <<>>, <<"0">> } }
ExpectedStid == inferStateIdFromZip(handler.zip)
StateMatches == { n \in UsableCandidates : Str(Candidates[n].stid) = ExpectedStid }
ZipAnswerHeld == handler.pc \in {"resolved", "done"} /\ handler.zipAnswer # Null

\* C14: when the expected state of the ZIP is known and some candidate with a
\* non-zero county id has that state, step 1 resolves to the first such
\* candidate in list order, whatever precedes it
C14_FirstStateMatchSelected ==
  (ZipAnswerHeld /\ Truthy(ExpectedStid) /\ StateMatches # {}) =>
    LET n == CHOOSE n \in StateMatches : \A m \in StateMatches : n <= m IN
    /\ handler.pc = "resolved"
    /\ handler.bestMatch.ctid = Candidates[n].ctid
    /\ handler.bestMatch.stid = Candidates[n].stid
    /\ handler.bestMatch.city = Candidates[n].city
C14_Witness ==
  /\ ZipAnswerHeld /\ Truthy(ExpectedStid)
  /\ Len(Candidates) = 2
  /\ 1 \in UsableCandidates /\ 1 \notin StateMatches /\ 2 \in StateMatches
  /\ Candidates[1].ctid # Candidates[2].ctid
  /\ handler.pc = "resolved"
  /\ handler.bestMatch.ctid = Candidates[2].ctid

\* C15: once step 1 has resolved a ZIP whose expected state is known, the
\* state id it holds, and the one every getStateInfo call carries, is the
\* expected one; when no candidate has that state the county id is the first
\* candidate's
C15_ResolvedStateIsExpected ==
  (Truthy(handler.bestMatch) /\ Truthy(ExpectedStid)) =>
    /\ handler.bestMatch.stid = ExpectedStid.v
    /\ \A n \in 1..Len(handler.rpc) :
         handler.rpc[n][1] = "getStateInfo" => handler.rpc[n][2] = ExpectedStid.v
    /\ (ZipAnswerHeld /\ StateMatches = {}) =>
         /\ handler.bestMatch.ctid = Candidates[1].ctid
         /\ handler.bestMatch.city = Candidates[1].city
C15_Witness ==
  /\ handler.pc = "resolved" /\ Truthy(ExpectedStid)
  /\ Len(Candidates) = 2 /\ StateMatches = {}
  /\ Str(Candidates[1].stid) # ExpectedStid
  /\ handler.bestMatch.ctid = Candidates[1].ctid
  /\ handler.bestMatch.stid = ExpectedStid.v

\* C16: when the getZipcodeInfo answer has no candidate with a county id, or
\* step 1 found no match in it, the handler answers 401 with the fault text
\* if the answer carries a fault string and 404 if it carries none, and
\* getZipcodeInfo stays the only call issued
C16_NoCandidateAnswersFaultOrNotFound ==
  (ZipAnswerHeld /\ (UsableCandidates = {} \/ ~Truthy(handler.bestMatch))) =>
    /\ handler.pc = "done"
    /\ IF handler.zipAnswer.faultstring # <<>>
       THEN /\ handler.response.status = 401
            /\ handler.response.error = <<"R","a","d","i","o","R","e","f","e","r","e","n","c","e",":"," ">> \o handler.zipAnswer.faultstring
       ELSE handler.response.status = 404
    /\ handler.response.data = Null
    /\ handler.rpc = << <<"getZipcodeInfo", handler.zip>> >>
C16_Witness ==
  /\ ZipAnswerHeld /\ UsableCandidates = {} /\ Len(Candidates) = 2
  /\ handler.zipAnswer.faultstring # <<>>
  /\ handler.response.status = 401
  /\ handler.inflight = {}

\* the agencies and systems of the units whose calls did not fail, in the
\* order step 3 and step 4 enumerate them
SucceededAgencies ==
  LET freqsOf(sc) == parseFrequencies(getSubcatFreqs(sc.scid), handler.relevant)
      kept == SelectSeq(handler.prioritizedSubcats, LAMBDA sc :
                <<"getSubcatFreqs", sc.scid>> \notin handler.failed /\ Len(freqsOf(sc)) > 0)
  IN [n \in 1..Len(kept) |->
        Agency(Str(kept[n].name), Str(inferCategory(kept[n].catName, kept[n].name)),
               Arr(freqsOf(kept[n])), Undefined)]
SucceededSystems ==
  LET built(trs) == systemOf(trs, handler.bestMatch.ctid, handler.relevant, handler.locationName)
      kept == SelectSeq(handler.trsToFetch, LAMBDA trs :
                trsCalls(trs.sid) \cap handler.failed = {} /\ built(trs) # <<>>)
  IN [n \in 1..Len(kept) |-> built(kept[n])[1]]

\* C17: whatever getSubcatFreqs calls and whatever systems' calls fail, the
\* handler gives no answer while steps 3 and 4 run, its answer after them is
\* 200, and the agencies and trunked systems in it are those of the units
\* that did not fail, in enumeration order
C17_UnitFailuresDropOnlyTheirUnit ==
  /\ handler.pc \in {"batch", "batchWait", "trs", "trsWait", "respond"} =>
       handler.response = Null
  /\ (handler.pc = "done" /\ Len(handler.rpc) > 3) =>
       /\ handler.response.status = 200
       /\ handler.response.data.agencies = Arr(SucceededAgencies)
       /\ handler.response.data.trunkedSystems = Arr(SucceededSystems)
C17_Witness ==
  /\ handler.pc = "done" /\ handler.response.status = 200
  /\ <<"getSubcatFreqs", 2>> \in handler.failed
  /\ <<"getTrsSites", 2>> \in handler.failed
  /\ Len(handler.response.data.agencies.v) > 0
  /\ Len(handler.response.data.trunkedSystems.v) > 0

\* the calls of one method in the call log, and the subcategory ids of both scopes
CallsOf(method) == { n \in 1..Len(handler.rpc) : handler.rpc[n][1] = method }
CountyScids ==
  LET list == parseSubcategories(getCountyInfo(handler.bestMatch.ctid))
  IN { list[n].scid : n \in 1..Len(list) }
StateScids ==
  LET list == parseSubcategories(getStateInfo(handler.bestMatch.stid))
  IN { list[n].scid : n \in 1..Len(list) }

\* C18: a request issues at most 150 getSubcatFreqs calls and fetches at most
\* 50 trunked systems, none twice; a state-scoped subcategory is fetched only
\* when every county-scoped one is; and a request whose lists exceed the caps
\* is answered 200 with exactly the capped number of calls
C18_FetchesAreCappedCountyFirst ==
  LET fetched == { handler.rpc[n][2] : n \in CallsOf("getSubcatFreqs") } IN
  /\ Cardinality(CallsOf("getSubcatFreqs")) <= SubcatCap
  /\ Cardinality(CallsOf("getSubcatFreqs")) = Cardinality(fetched)
  /\ Cardinality(CallsOf("getTrsDetails")) <= TrsCap
  /\ Cardinality(CallsOf("getTrsSites")) <= TrsCap
  /\ Cardinality(CallsOf("getTrsTalkgroups")) <= TrsCap
  /\ Cardinality({ handler.rpc[n][2] : n \in CallsOf("getTrsDetails") })
       = Cardinality(CallsOf("getTrsDetails"))
  /\ fetched # {} =>
       /\ fetched \subseteq CountyScids \cup StateScids
       /\ fetched \cap StateScids # {} => CountyScids \subseteq fetched
  /\ (handler.pc = "done" /\ Len(handler.rpc) > 3) =>
       /\ handler.response.status = 200
       /\ Cardinality(CountyScids \cup StateScids) >= SubcatCap =>
            Cardinality(fetched) = SubcatCap
       /\ Len(parseTrsList(getCountyInfo(handler.bestMatch.ctid))) >= TrsCap =>
            Cardinality(CallsOf("getTrsDetails")) = TrsCap
C18_Witness ==
  /\ handler.pc = "done" /\ handler.response.status = 200
  /\ Cardinality(CountyScids \cup StateScids) > SubcatCap
  /\ Cardinality(CallsOf("getSubcatFreqs")) = SubcatCap
  /\ CountyScids \subseteq { handler.rpc[n][2] : n \in CallsOf("getSubcatFreqs") }
  /\ \E scid \in StateScids :
       \A n \in CallsOf("getSubcatFreqs") : handler.rpc[n][2] # scid

\* ------------------------------------------------ properties of the extractor
\* the structure of a document given piece by piece: start tags, end tags,
\* empty-element tags and text
IsStartTag(tok) == tok \in { <<"<","i","t","e","m",">">>, <<"<","i","t","e","m"," ","t","=","\"","x","\"",">">> }
IsEndTag(tok) == tok = <<"<","/","i","t","e","m",">">>
IsEmptyTag(tok) == tok = <<"<","i","t","e","m"," ","n","=","\"","1","\"","/",">">>
Flatten(toks) ==
  LET flat[n \in 0..Len(toks)] == IF n = 0 THEN <<>> ELSE flat[n - 1] \o toks[n]
  IN flat[Len(toks)]
DepthAfter(toks) ==
  [n \in 0..Len(toks) |->
     Cardinality({ m \in 1..n : IsStartTag(toks[m]) }) - Cardinality({ m \in 1..n : IsEndTag(toks[m]) })]
WellFormed(toks) ==
  /\ \A n \in 0..Len(toks) : DepthAfter(toks)[n] >= 0
  /\ DepthAfter(toks)[Len(toks)] = 0
\* the content of every top-level item element of a well-formed document
TopItems(toks) ==
  LET depth == DepthAfter(toks)
      starts == { n \in 1..Len(toks) :
                    depth[n - 1] = 0 /\ (IsStartTag(toks[n]) \/ IsEmptyTag(toks[n])) }
      endOf(n) == IF IsEmptyTag(toks[n]) THEN n
                  ELSE CHOOSE m \in (n + 1)..Len(toks) :
                         depth[m] = 0 /\ \A r \in (n + 1)..(m - 1) : depth[r] > 0
      RECURSIVE from(_)
      from(n) ==
        IF \A s \in starts : s < n THEN <<>>
        ELSE LET s == CHOOSE s \in starts : s >= n /\ \A r \in starts : r >= n => s <= r
             IN << SubSeq(toks, s + 1, endOf(s) - 1) >> \o from(endOf(s) + 1)
  IN from(1)
ItemsDone == pureResult # NoPure /\ pureResult.fn = "getItems"

\* C19: on every well-formed document getItems returns the content of the
\* top-level items, in document order and with their nested items intact,
\* and getItems on a returned item yields that item's own top-level items
C19_TopLevelItemsExtracted ==
  (ItemsDone /\ WellFormed(pureArgs.tokens)) =>
    LET top == TopItems(pureArgs.tokens) IN
    /\ pureResult.out = [n \in 1..Len(top) |-> Flatten(top[n])]
    /\ pureResult.inner =
         [n \in 1..Len(top) |->
            LET nested == TopItems(top[n]) IN [m \in 1..Len(nested) |-> Flatten(nested[m])]]
\* the same for documents without empty-element tags
ExtractedWhenTagsPaired ==
  (\A n \in 1..Len(pureArgs.tokens) : ~IsEmptyTag(pureArgs.tokens[n])) => C19_TopLevelItemsExtracted

\* --------------------------------------------- properties of the AI handler
AISearchDone == pureResult # NoPure /\ pureResult.fn = "aiSearch"
\* none of the fenced block, the whole text and the text from the first '{'
\* to the last '}' is JSON
NoAttemptYieldsJSON ==
  LET text == IF pureArgs.text = <<>> THEN <<"{","}">> ELSE pureArgs.text
      fails(block) == block = Undefined \/ JSONparse(block.v).threw
  IN fails(fencedBlock(text)) /\ fails(Str(text)) /\ fails(braceBlock(text))

\* C20: a text none of the three attempts can parse is answered 200 with
\* data null; searchFrequencies then has no AI result and goes on with the
\* RadioReference result alone, or with no master record when there is none
C20_UnparsableTextIsNullData ==
  (AISearchDone /\ NoAttemptYieldsJSON) =>
    /\ pureResult.response = HttpOk(Null)
    /\ pureResult.aiResult = Null
    /\ ~pureResult.master.threw
    /\ IF pureArgs.rr.ok
       THEN /\ pureResult.master.v.rawText = "RadioReference Results"
            /\ pureResult.master.v.masterData = rrPath(pureArgs.rr)
       ELSE pureResult.master.v.masterData = Null
C20_Witness ==
  /\ AISearchDone /\ NoAttemptYieldsJSON
  /\ Truthy(fencedBlock(pureArgs.text))
  /\ braceBlock(pureArgs.text) # Undefined
  /\ pureArgs.rr.ok
  /\ pureResult.response.ok /\ pureResult.response.data = Null

\* ------------------------------------------- provenance of the stored record
\* C21: a key that holds a record of provenance API never comes to hold a
\* record of provenance AI
C21_APIRecordNeverReplacedByAI ==
  [][\A old \in store :
       old.result_data.source = Str(<<"A","P","I">>) =>
         \A new \in store' :
           new.search_key = old.search_key => new.result_data.source # Str(<<"A","I">>)]_vars

\* --------------------------------------------------- calls in flight (steps 3-4)
InFlight(method) == { call \in handler.inflight : call[1] = method }

\* the batch half of C22: at most batchSize channel-group calls are in flight
\* and a batch is issued only when none of the previous one is
BatchesAreSequential ==
  /\ Cardinality(InFlight("getSubcatFreqs")) <= batchSize
  /\ handler.pc = "batch" => InFlight("getSubcatFreqs") = {}

\* C22: at most 10 getSubcatFreqs calls are in flight and batch k+1 is issued
\* only after every call of batch k has completed; a trunked system's three
\* calls are in flight together and the next system is started only after all
\* three of the previous one have settled
C22_FetchesBoundedAndSequential ==
  /\ BatchesAreSequential
  /\ handler.pc = "trs" => handler.inflight = {}
  /\ handler.pc = "trsWait" =>
       handler.inflight = trsCalls(handler.trsToFetch[handler.k].sid)

\* ------------------------------------------------------ the tag filter (step 3-4)
\* the tag ids of the categories the caller requested (part_001:333-337)
RequestedTagIds ==
  UNION { getTagIdsForService(handler.safeServices[i]) : i \in 1..Len(handler.safeServices) }
HasRequestedTag(item) == \E i \in 1..Len(item.tagIds) : item.tagIds[i] \in RequestedTagIds
\* a frequency or talkgroup id that is a number other than zero
NonZero(text) ==
  /\ text # <<>> /\ text[1] \in Digits
  /\ \E i \in 1..Len(text) : text[i] \in Digits \ {"0"}
FrequencyKept(item) == parseFrequencies(<< item >>, handler.relevant) # <<>>
TalkgroupKept(item) == parseTalkgroups(<< item >>, handler.relevant) # <<>>
\* the items of the answers the handler has asked for
FetchedFrequencyItems ==
  UNION { { getSubcatFreqs(handler.rpc[n][2])[j] :
              j \in 1..Len(getSubcatFreqs(handler.rpc[n][2])) } :
          n \in CallsOf("getSubcatFreqs") }
FetchedTalkgroupItems ==
  UNION { { getTrsTalkgroups(handler.rpc[n][2])[j] :
              j \in 1..Len(getTrsTalkgroups(handler.rpc[n][2])) } :
          n \in CallsOf("getTrsTalkgroups") }

\* the fetch-all half of C23: with an empty relevant-tag set exactly the items
\* with a non-zero frequency or talkgroup id are kept
EmptyTagSetKeepsEveryNonZeroItem ==
  handler.relevant = {} =>
    /\ \A item \in FetchedFrequencyItems : FrequencyKept(item) <=> NonZero(item.out)
    /\ \A item \in FetchedTalkgroupItems : TalkgroupKept(item) <=> NonZero(item.tgDec)

\* C23: with a non-empty relevant-tag set a channel or talkgroup is kept only
\* if one of its tags is a tag of a requested category; with an empty set
\* every item with a non-zero frequency or talkgroup id is kept
C23_KeptItemsCarryRequestedTag ==
  /\ handler.relevant # {} =>
       /\ \A item \in FetchedFrequencyItems : FrequencyKept(item) => HasRequestedTag(item)
       /\ \A item \in FetchedTalkgroupItems : TalkgroupKept(item) => HasRequestedTag(item)
  /\ EmptyTagSetKeepsEveryNonZeroItem

\* ------------------------------------------------- the filter with every service
\* out has as many agencies as data and each system as many talkgroups
NothingRemoved(out, data) ==
  /\ data.agencies.t = "array" => Len(out.agencies.v) = Len(data.agencies.v)
  /\ data.trunkedSystems.t = "array" =>
       \A i \in 1..Len(data.trunkedSystems.v) :
         data.trunkedSystems.v[i].talkgroups.t = "array" =>
           Len(out.trunkedSystems.v[i].talkgroups.v)
             = Len(data.trunkedSystems.v[i].talkgroups.v)

\* C24: with all 18 service types requested filterDataByServices removes no
\* agency and no talkgroup, whatever their category or tag
C24_AllServicesKeepEverything ==
  ( /\ pureResult.fn = "filterData"
    /\ pureArgs.services = ALL_SERVICE_TYPES
    /\ pureArgs.data.t = Obj )
  => NothingRemoved(pureResult.out, pureArgs.data)

\* ------------------------------------------------------- the ZIP resolver, again
\* C25: step 1 answers not-found or fault only when no candidate has a
\* non-zero county id; with such a candidate anywhere in the list it resolves
\* to one of them
C25_UsableCandidateResolves ==
  (ZipAnswerHeld /\ UsableCandidates # {}) =>
    /\ handler.pc = "resolved"
    /\ \E n \in UsableCandidates : handler.bestMatch.ctid = Candidates[n].ctid

\* ---------------------------------------------------- the state inference table
ProviderStateIds == { StateIdText(id) : id \in 1..51 }
InferDone == pureResult.fn = "inferStateIdFromZip"

\* the second half of C26: prefixes 830 and 831 give Wyoming (50), every
\* other 83x prefix gives Idaho (12)
WyomingIdahoSplit ==
  (InferDone /\ pureResult.prefix3 \in 830..839) =>
    pureResult.out = Str(IF pureResult.prefix3 \in {830, 831} THEN <<"5","0">> ELSE <<"1","2">>)

\* C26: each of the 51 state ids is returned for some 5-digit ZIP; 830xx and
\* 831xx give Wyoming and every other 83xxx gives Idaho
C26_EveryStateIdHasAZip ==
  /\ WyomingIdahoSplit
  /\ (InferDone /\ pureResult.prefix3 = 999) => pureResult.reached = ProviderStateIds

\* ------------------------------------------------------- the sites of a system
\* out lists the sites of raw, each parsed, those of county ctid first and
\* the document order kept within the two groups
SitesCountyFirst(raw, ctid, out) ==
  LET n == Len(raw)
      inCounty(i) == raw[i].siteCtid = ctid
  IN /\ Len(out) = n
     /\ \E p \in { f \in [1..n -> 1..n] : \A i, j \in 1..n : f[i] = f[j] => i = j } :
          /\ \A i \in 1..n : out[i] = parseSites(<< raw[p[i]] >>, ctid)[1]
          /\ \A i, j \in 1..n :
               i < j => /\ inCounty(p[j]) => inCounty(p[i])
                        /\ (inCounty(p[i]) <=> inCounty(p[j])) => p[i] < p[j]
\* the system settled last, its three calls answered, has sites
LastSystemHasSites ==
  /\ handler.k > 1
  /\ handler.trsToFetch # <<>>
  /\ trsCalls(handler.trsToFetch[handler.k - 1].sid) \cap handler.failed = {}
  /\ getTrsSites(handler.trsToFetch[handler.k - 1].sid) # <<>>
\* the primary site: the first of the county, else the first
PrimarySite(raw, ctid) ==
  IF \E i \in 1..Len(raw) : raw[i].siteCtid = ctid
  THEN raw[CHOOSE i \in 1..Len(raw) :
             raw[i].siteCtid = ctid /\ \A j \in 1..(i - 1) : raw[j].siteCtid # ctid]
  ELSE raw[1]

\* C27: parseSites puts the sites of the target county before the others and
\* keeps the document order within each group; a system exposes the
\* frequencies and the location of the first site in that order
C27_PrimarySiteIsFirstOfCounty ==
  LastSystemHasSites =>
    LET raw == getTrsSites(handler.trsToFetch[handler.k - 1].sid)
        ctid == handler.bestMatch.ctid
        primary == parseSites(<< PrimarySite(raw, ctid) >>, ctid)[1]
        system == handler.trunkedSystems[Len(handler.trunkedSystems)]
    IN /\ SitesCountyFirst(raw, ctid, parseSites(raw, ctid))
       /\ system.frequencies = primary.frequencies
       /\ system.location = Str(primary.siteDescr)
C27_Witness ==
  /\ LastSystemHasSites
  /\ LET raw == getTrsSites(handler.trsToFetch[handler.k - 1].sid) IN
     /\ raw[1].siteCtid # handler.bestMatch.ctid
     /\ \E i \in 2..Len(raw) : raw[i].siteCtid = handler.bestMatch.ctid
     /\ handler.trunkedSystems[Len(handler.trunkedSystems)].location = Str(<<"U","n","k","n","o","w","n"," ","S","i","t","e">>)

\* ------------------------------------------------- which systems are in the result
\* the positions of trsToFetch settled so far
SettledSystems == 1..(IF handler.trsToFetch = <<>> THEN 0 ELSE handler.k - 1)
\* the system at position n: its three calls answered, and it has a site or a
\* talkgroup that passes the tag filter
SystemQualifies(n) ==
  LET sid == handler.trsToFetch[n].sid IN
  /\ trsCalls(sid) \cap handler.failed = {}
  /\ \/ getTrsSites(sid) # <<>>
     \/ \E j \in 1..Len(getTrsTalkgroups(sid)) : TalkgroupKept(getTrsTalkgroups(sid)[j])
\* the qualifying positions in order
QualifyingSystems ==
  LET RECURSIVE upTo(_)
      upTo(n) == IF n = 0 THEN <<>>
                 ELSE IF SystemQualifies(n) THEN Append(upTo(n - 1), n) ELSE upTo(n - 1)
  IN upTo(IF handler.trsToFetch = <<>> THEN 0 ELSE handler.k - 1)

\* C28: the result holds a system exactly for every fetched system whose three
\* calls succeeded and that has a site or a talkgroup left after the tag
\* filter; one without a site has no frequencies; no talkgroup has an empty or
\* zero decimal id
C28_SystemsKeptIffFetchedAndNonEmpty ==
  /\ LET qualifying == QualifyingSystems IN
     /\ Len(handler.trunkedSystems) = Len(qualifying)
     /\ \A j \in 1..Len(handler.trunkedSystems) :
          LET sid == handler.trsToFetch[qualifying[j]].sid
              system == handler.trunkedSystems[j]
          IN /\ system.talkgroups
                  = Arr(parseTalkgroups(getTrsTalkgroups(sid), handler.relevant))
             /\ getTrsSites(sid) = <<>> => system.frequencies = Arr(<<>>)
             /\ \A i \in 1..Len(system.talkgroups.v) :
                  NonZero(system.talkgroups.v[i].dec.v)
  /\ (handler.response # Null /\ handler.response.status = 200) =>
       handler.response.data.trunkedSystems = Arr(handler.trunkedSystems)
C28_Witness ==
  /\ handler.response # Null
  /\ handler.response.status = 200
  /\ \E n \in SettledSystems :
       ~SystemQualifies(n) /\ trsCalls(handler.trsToFetch[n].sid) \cap handler.failed = {}
  /\ \E n \in SettledSystems : trsCalls(handler.trsToFetch[n].sid) \cap handler.failed # {}
  /\ LET qualifying == QualifyingSystems IN
     \E j \in 1..Len(handler.trunkedSystems) :
       /\ getTrsSites(handler.trsToFetch[qualifying[j]].sid) = <<>>
       /\ handler.trunkedSystems[j].frequencies = Arr(<<>>)
       /\ handler.trunkedSystems[j].talkgroups # Arr(<<>>)

\* --------------------------------------------- the extractor on truncated markup
\* toks is the beginning of a well-formed document: no end tag without its
\* start tag
Truncated(toks) == \A n \in 0..Len(toks) : DepthAfter(toks)[n] >= 0
\* the content of the top-level items of toks that are complete, in order
CompleteItems(toks) ==
  LET depth == DepthAfter(toks)
      ends(n) == { m \in (n + 1)..Len(toks) : depth[m] = 0 }
      starts == { n \in 1..Len(toks) :
                    /\ depth[n - 1] = 0
                    /\ \/ IsEmptyTag(toks[n])
                       \/ IsStartTag(toks[n]) /\ ends(n) # {} }
      endOf(n) == IF IsEmptyTag(toks[n]) THEN n
                  ELSE CHOOSE m \in ends(n) : \A r \in ends(n) : m <= r
      RECURSIVE from(_)
      from(n) ==
        IF \A s \in starts : s < n THEN <<>>
        ELSE LET s == CHOOSE s \in starts : s >= n /\ \A r \in starts : r >= n => s <= r
             IN << Flatten(SubSeq(toks, s + 1, endOf(s) - 1)) >> \o from(endOf(s) + 1)
  IN from(1)
\* the item markers of segment pair up: no end tag before its start tag, none
\* left open
Balanced(segment) ==
  LET parts == splitItems(segment)
      depth[n \in 0..Len(parts)] ==
        IF n = 0 THEN 0
        ELSE depth[n - 1] + (IF IsStartTag(parts[n]) THEN 1 ELSE 0)
                          - (IF IsEndTag(parts[n]) THEN 1 ELSE 0)
  IN /\ \A n \in 0..Len(parts) : depth[n] >= 0
     /\ depth[Len(parts)] = 0

\* C29: on a document cut off after k complete top-level items getItems
\* returns exactly those k items, and on every input every segment it returns
\* has balanced, properly nested item markers
C29_TruncatedYieldsCompleteItems ==
  ItemsDone =>
    /\ Truncated(pureArgs.tokens) => pureResult.out = CompleteItems(pureArgs.tokens)
    /\ \A n \in 1..Len(pureResult.out) : Balanced(pureResult.out[n])
\* the same for documents without empty-element tags
TruncationSafeWhenTagsPaired ==
  (\A n \in 1..Len(pureArgs.tokens) : ~IsEmptyTag(pureArgs.tokens[n]))
    => C29_TruncatedYieldsCompleteItems

\* ------------------------------------------------ provenance of a served record
\* served is stored with provenance 'API' kept and any other replaced by 'Cache'
ProvenanceStamped(served, stored) ==
  /\ served.source \in { Str(<<"C","a","c","h","e">>), Str(<<"A","P","I">>) }
  /\ served.source = Str(<<"A","P","I">>) <=> stored.source = Str(<<"A","P","I">>)
\* call c holds a record getFromCache served
ServedFromCache(c) == Truthy(calls[c].cached) /\ Truthy(calls[c].cached.data)

\* C30: a record served by getFromCache has provenance 'Cache' or 'API',
\* never 'AI': 'API' exactly when it was stored as 'API', 'Cache' for every
\* other stored provenance; the same for the data of each location of a trip
C30_ServedProvenanceIsCacheOrAPI ==
  \A c \in DOMAIN calls :
    ServedFromCache(c) =>
      LET served == calls[c].cached.data
          stored == calls[c].row.result_data
      IN /\ ProvenanceStamped(served, stored)
         /\ Truthy(served.locations) =>
              \A i \in 1..Len(served.locations.v) :
                Truthy(served.locations.v[i].data) =>
                  ProvenanceStamped(served.locations.v[i].data, stored.locations.v[i].data)
C30_Witness ==
  \E c \in DOMAIN calls :
    /\ ServedFromCache(c)
    /\ calls[c].row.result_data.source = Undefined
    /\ calls[c].cached.data.source = Str(<<"C","a","c","h","e">>)
    /\ Truthy(calls[c].cached.data.locations)
    /\ \E i \in 1..Len(calls[c].cached.data.locations.v) :
         /\ Truthy(calls[c].cached.data.locations.v[i].data)
         /\ calls[c].row.result_data.locations.v[i].data.source = Str(<<"A","I">>)
         /\ calls[c].cached.data.locations.v[i].data.source = Str(<<"C","a","c","h","e">>)

====
